---- MODULE Spec2Model ----
(***************************************************************************)
(* Model of the e2ee engine (crates/lib/e2ee): the server identity E2ee,   *)
(* the client identity PublicE2ee, the text transport (unpadded base64),   *)
(* RSA-OAEP over bytes, PEM key texts and the two key files.               *)
(*                                                                         *)
(* Strings are sequences of Unicode scalar values, byte strings are        *)
(* sequences of 0..255.  The RSA primitive of the rsa crate is modelled as *)
(* a keyed byte permutation (public exponent e, private exponent d,        *)
(* inverse of each other exactly when e + d = 0 mod 256); the OAEP frame,  *)
(* the length limit, the base64 alphabet and UTF-8 are modelled as they    *)
(* are computed.                                                           *)
(***************************************************************************)
EXTENDS Integers, Sequences, FiniteSets, TLC

(***************************************************************************)
(* Bounds of the model.                                                    *)
(***************************************************************************)
MaxDraws == 2      \* OAEP seeds drawn from OsRng in one behaviour
MaxKeys == 1       \* keys drawn from OsRng in one behaviour
MaxAllocs == 3     \* allocations the C boundary makes in one behaviour

(***************************************************************************)
(* Program constants.                                                      *)
(***************************************************************************)
HashLen == 32      \* SHA-256 digest size in bytes (Oaep::new::<Sha256>())

Null == [kind |-> "Null"]

Min(a, b) == IF a <= b THEN a ELSE b

Rep(c, n) == [i \in 1..n |-> c]

SubSeqFrom(s, i) == SubSeq(s, i, Len(s))

(***************************************************************************)
(* KeySize and KeySize::as_usize.                                          *)
(***************************************************************************)
KeySize == {"Bit1024", "Bit2048", "Bit3072", "Bit4096"}

as_usize(ks) ==
    CASE ks = "Bit1024" -> 1024
      [] ks = "Bit2048" -> 2048
      [] ks = "Bit3072" -> 3072
      [] ks = "Bit4096" -> 4096

(***************************************************************************)
(* Result values: Ok(v) and Err(e).  An error carries the type of the      *)
(* library error that the ? operator converted into the crate's error.     *)
(***************************************************************************)
Ok(v) == [kind |-> "Ok", val |-> v]

Err(e) == [kind |-> "Err", err |-> e]

IsOk(r) == r.kind = "Ok"

IsErr(r) == r.kind = "Err"

(***************************************************************************)
(* str::as_bytes and String::from_utf8: UTF-8.                             *)
(***************************************************************************)
Utf8Char(cp) ==
    CASE cp < 128 -> <<cp>>
      [] cp >= 128 /\ cp < 2048 ->
            <<192 + (cp \div 64), 128 + (cp % 64)>>
      [] cp >= 2048 /\ cp < 65536 ->
            <<224 + (cp \div 4096), 128 + ((cp \div 64) % 64), 128 + (cp % 64)>>
      [] OTHER ->
            <<240 + (cp \div 262144), 128 + ((cp \div 4096) % 64),
              128 + ((cp \div 64) % 64), 128 + (cp % 64)>>

RECURSIVE Utf8Range(_, _, _)
Utf8Range(s, lo, hi) ==
    IF lo > hi THEN <<>>
    ELSE IF lo = hi THEN Utf8Char(s[lo])
    ELSE LET mid == (lo + hi) \div 2
         IN  Utf8Range(s, lo, mid) \o Utf8Range(s, mid + 1, hi)

as_bytes(s) == Utf8Range(s, 1, Len(s))

IsCont(b) == b >= 128 /\ b < 192

\* length of the sequence announced by a lead byte, 0 when it is no lead byte
LeadLen(b) ==
    IF b < 128 THEN 1
    ELSE IF b >= 194 /\ b < 224 THEN 2
    ELSE IF b >= 224 /\ b < 240 THEN 3
    ELSE IF b >= 240 /\ b < 245 THEN 4
    ELSE 0

\* range allowed for the byte that follows lead byte b
SecondOk(b, c) ==
    CASE b = 224 -> c >= 160 /\ c < 192
      [] b = 237 -> c >= 128 /\ c < 160
      [] b = 240 -> c >= 144 /\ c < 192
      [] b = 244 -> c >= 128 /\ c < 144
      [] OTHER -> IsCont(c)

Utf8Valid(b) ==
    LET n == Len(b)
    IN  \A i \in 1..n :
           IF IsCont(b[i])
           THEN i > 1
           ELSE LET l == LeadLen(b[i])
                IN  /\ l > 0
                    /\ i + l - 1 <= n
                    /\ \A j \in (i + 1)..(i + l - 1) : IsCont(b[j])
                    /\ l > 1 => SecondOk(b[i], b[i + 1])
                    /\ i + l <= n => ~IsCont(b[i + l])

Utf8Decode1(b, i) ==
    LET l == LeadLen(b[i])
    IN  CASE l = 1 -> b[i]
          [] l = 2 -> (b[i] - 192) * 64 + (b[i + 1] - 128)
          [] l = 3 -> (b[i] - 224) * 4096 + (b[i + 1] - 128) * 64 + (b[i + 2] - 128)
          [] OTHER -> (b[i] - 240) * 262144 + (b[i + 1] - 128) * 4096
                        + (b[i + 2] - 128) * 64 + (b[i + 3] - 128)

from_utf8(b) ==
    IF ~Utf8Valid(b) THEN Err("FromUtf8Error")
    ELSE LET IsLead(i) == ~IsCont(b[i])
             leads == SelectSeq([i \in 1..Len(b) |-> i], IsLead)
         IN  Ok([j \in 1..Len(leads) |-> Utf8Decode1(b, leads[j])])


(***************************************************************************)
(* general_purpose::STANDARD_NO_PAD: standard alphabet, no '=' appended on *)
(* encode, none accepted on decode, trailing bits must be zero.            *)
(***************************************************************************)
B64Char(i) ==
    IF i < 26 THEN 65 + i
    ELSE IF i < 52 THEN 97 + (i - 26)
    ELSE IF i < 62 THEN 48 + (i - 52)
    ELSE IF i = 62 THEN 43 ELSE 47

\* index of a character in the alphabet, -1 when it is outside ('=' included)
B64Index(c) ==
    IF c >= 65 /\ c <= 90 THEN c - 65
    ELSE IF c >= 97 /\ c <= 122 THEN c - 97 + 26
    ELSE IF c >= 48 /\ c <= 57 THEN c - 48 + 52
    ELSE IF c = 43 THEN 62
    ELSE IF c = 47 THEN 63
    ELSE -1

Pow64(p) == CASE p = 0 -> 1 [] p = 1 -> 64 [] p = 2 -> 4096 [] OTHER -> 262144

Pow256(p) == CASE p = 0 -> 1 [] p = 1 -> 256 [] OTHER -> 65536

B64EncodedLen(n) ==
    (n \div 3) * 4 + (CASE n % 3 = 0 -> 0 [] n % 3 = 1 -> 2 [] OTHER -> 3)

\* variant: the padding engine, which fills the last group with '='
b64_encode_padded(bytes) ==
    LET n == Len(bytes)
        at(x) == IF x <= n THEN bytes[x] ELSE 0
        groups == [g \in 1..((n + 2) \div 3) |->
                      at(3 * g - 2) * 65536 + at(3 * g - 1) * 256 + at(3 * g)]
    IN  [j \in 1..(4 * ((n + 2) \div 3)) |->
            IF j > B64EncodedLen(n) THEN 61
            ELSE B64Char((groups[((j - 1) \div 4) + 1]
                            \div Pow64(3 - ((j - 1) % 4))) % 64)]

b64_encode(bytes) ==
    LET n == Len(bytes)
        at(x) == IF x <= n THEN bytes[x] ELSE 0
        \* the 24 bits of each group of three bytes
        groups == [g \in 1..((n + 2) \div 3) |->
                      at(3 * g - 2) * 65536 + at(3 * g - 1) * 256 + at(3 * g)]
    IN  [j \in 1..B64EncodedLen(n) |->
            B64Char((groups[((j - 1) \div 4) + 1] \div Pow64(3 - ((j - 1) % 4))) % 64)]

\* the bytes of a text whose characters are all in the alphabet
B64Bytes(text) ==
    LET m == Len(text)
        n == (m \div 4) * 3 + (CASE m % 4 = 2 -> 1 [] m % 4 = 3 -> 2 [] OTHER -> 0)
        at(x) == IF x <= m THEN B64Index(text[x]) ELSE 0
        \* the 24 bits of each group of four characters
        groups == [g \in 1..((m + 3) \div 4) |->
                      at(4 * g - 3) * 262144 + at(4 * g - 2) * 4096
                        + at(4 * g - 1) * 64 + at(4 * g)]
    IN  [i \in 1..n |->
            (groups[((i - 1) \div 3) + 1] \div Pow256(2 - ((i - 1) % 3))) % 256]

\* a decoder that takes the '=' padding of the padded variant
b64_decode_standard(text) ==
    LET m == Len(text)
        pads == IF m > 0 /\ text[m] = 61
                THEN (IF m > 1 /\ text[m - 1] = 61 THEN 2 ELSE 1) ELSE 0
        body == SubSeq(text, 1, m - pads)
    IN  IF \E i \in 1..Len(body) : B64Index(body[i]) = -1
        THEN Err("base64::DecodeError")
        ELSE IF Len(body) % 4 = 1 THEN Err("base64::DecodeError")
        ELSE Ok(B64Bytes(body))

b64_decode(text) ==
    LET m == Len(text)
    IN  IF \E i \in 1..m : B64Index(text[i]) = -1 THEN Err("base64::DecodeError")
        ELSE IF m % 4 = 1 THEN Err("base64::DecodeError")
        ELSE IF m % 4 = 2 /\ B64Index(text[m]) % 16 # 0 THEN Err("base64::DecodeError")
        ELSE IF m % 4 = 3 /\ B64Index(text[m]) % 4 # 0 THEN Err("base64::DecodeError")
        ELSE Ok(B64Bytes(text))

(***************************************************************************)
(* RSA keys.  RsaPublicKey = [bits, e], RsaPrivateKey = [bits, e, d].      *)
(***************************************************************************)
RsaPublicKey(bits, e) == [bits |-> bits, e |-> e]

RsaPrivateKey(bits, e) == [bits |-> bits, e |-> e, d |-> (256 - e) % 256]

\* RsaPublicKey::from(&private_key)
PublicFrom(priv) == [bits |-> priv.bits, e |-> priv.e]

\* modulus length in bytes
size(key) == key.bits \div 8

\* the i-th key drawn from OsRng: an odd exponent, different for each draw
DrawKey(bits, i) == RsaPrivateKey(bits, 2 * i + 1)

\* the i-th OAEP seed drawn from OsRng, HashLen bytes, different for each draw
DrawSeed(i) == Rep(i % 256, HashLen)

(***************************************************************************)
(* RSAES-OAEP with SHA-256 and the empty label (Oaep::new::<Sha256>()).    *)
(* EM = 00 || seed || lHash || PS || 01 || M; the two mask generation      *)
(* steps, which decryption undoes, are not modelled.                       *)
(***************************************************************************)
LHash ==
    <<227, 176, 196, 66, 152, 252, 28, 20, 154, 251, 244, 200, 153, 111, 185, 36,
      39, 174, 65, 228, 100, 155, 147, 76, 164, 149, 153, 27, 120, 82, 184, 85>>

\* largest plaintext of a key: k - 2 hLen - 2
OaepLimit(key) == size(key) - 2 * HashLen - 2

oaep_pad(k, seed, msg) ==
    <<0>> \o seed \o LHash \o Rep(0, k - Len(msg) - 2 * HashLen - 2) \o <<1>> \o msg

oaep_unpad(em) ==
    LET k == Len(em)
        from == 2 * HashLen + 2
        hasSep == \E i \in from..k : em[i] # 0
        \* the first byte after lHash that is not zero
        sep == CHOOSE i \in from..k : em[i] # 0 /\ \A j \in from..(i - 1) : em[j] = 0
    IN  IF em[1] # 0 THEN Err("rsa::errors::Error")
        ELSE IF SubSeq(em, HashLen + 2, 2 * HashLen + 1) # LHash
             THEN Err("rsa::errors::Error")
        ELSE IF ~hasSep THEN Err("rsa::errors::Error")
        ELSE IF em[sep] # 1 THEN Err("rsa::errors::Error")
        ELSE Ok(SubSeqFrom(em, sep + 1))

\* variant: a message of exactly the limit is refused
rsa_encrypt_exclusive(key, seed, msg) ==
    LET k == size(key)
    IN  IF Len(msg) + 2 * HashLen + 2 >= k THEN Err("rsa::errors::Error")
        ELSE LET em == oaep_pad(k, seed, msg)
             IN  Ok([i \in 1..k |-> (em[i] + key.e) % 256])

\* RsaPublicKey::encrypt(rng, Oaep, msg)
rsa_encrypt(key, seed, msg) ==
    LET k == size(key)
    IN  IF Len(msg) + 2 * HashLen + 2 > k THEN Err("rsa::errors::Error")
        ELSE LET em == oaep_pad(k, seed, msg)
             IN  Ok([i \in 1..k |-> (em[i] + key.e) % 256])

\* RsaPrivateKey::decrypt(Oaep, ciphertext)
rsa_decrypt(key, c) ==
    LET k == size(key)
        pad == k - Len(c)
    IN  IF Len(c) > k \/ k < 2 * HashLen + 2 THEN Err("rsa::errors::Error")
        ELSE oaep_unpad([i \in 1..k |->
                 ((IF i <= pad THEN 0 ELSE c[i - pad]) + key.d) % 256])

(***************************************************************************)
(* PEM texts (KeyCodec).  A text is a sequence of lines; a line is a       *)
(* BEGIN or END boundary with its label, or one line of the base64 body,   *)
(* and carries its line ending.  The body of a PKCS#8 private key is       *)
(* longer than the body of an SPKI public key.                             *)
(***************************************************************************)
NoDer == [fmt |-> "none", key |-> Null, part |-> 0, of |-> 0]

BodyLines(fmt) == IF fmt = "pkcs8" THEN 2 ELSE 1

Boundary(kind, label, eol) ==
    [kind |-> kind, label |-> label, der |-> NoDer, eol |-> eol]

Body(fmt, key, i, eol) ==
    [kind |-> "body", label |-> "",
     der |-> [fmt |-> fmt, key |-> key, part |-> i, of |-> BodyLines(fmt)],
     eol |-> eol]

pem_encode(label, fmt, key, eol) ==
    <<Boundary("begin", label, eol)>>
      \o [i \in 1..BodyLines(fmt) |-> Body(fmt, key, i, eol)]
      \o <<Boundary("end", label, eol)>>

\* the parser takes LF and CRLF line endings alike
pem_wellformed(text, label, fmt) ==
    LET n == Len(text)
    IN  /\ n = BodyLines(fmt) + 2
        /\ \A i \in 1..n : text[i].eol \in {"LF", "CRLF"}
        /\ text[1].kind = "begin" /\ text[1].label = label
        /\ text[n].kind = "end" /\ text[n].label = label
        /\ \A i \in 2..(n - 1) :
              /\ text[i].kind = "body"
              /\ text[i].der.fmt = fmt
              /\ text[i].der.part = i - 1
              /\ text[i].der.of = BodyLines(fmt)
              /\ text[i].der.key = text[2].der.key

\* RsaPublicKey::from_public_key_pem
from_public_key_pem(text) ==
    IF pem_wellformed(text, "PUBLIC KEY", "spki")
    THEN Ok(text[2].der.key) ELSE Err("spki::Error")

\* RsaPrivateKey::from_pkcs8_pem
from_pkcs8_pem(text) ==
    IF pem_wellformed(text, "PRIVATE KEY", "pkcs8")
    THEN Ok(text[2].der.key) ELSE Err("pkcs8::Error")

\* private_key.to_pkcs8_pem(LineEnding::default()).to_string()
to_pkcs8_pem(priv) == pem_encode("PRIVATE KEY", "pkcs8", priv, "LF")

\* variant: the public PEM is written for another exponent than the key's
to_public_key_pem_other(pub) ==
    pem_encode("PUBLIC KEY", "spki", [pub EXCEPT !.e = (pub.e + 2) % 256], "LF")

\* public_key.to_public_key_pem(LineEnding::default())
to_public_key_pem(pub) == pem_encode("PUBLIC KEY", "spki", pub, "LF")

(***************************************************************************)
(* generate_rsa_keypair: the key is the draw-th output of OsRng; genOk is  *)
(* the outcome of the prime search.                                        *)
(***************************************************************************)
\* variant: a failed prime search is reported as an error of another type
generate_rsa_keypair_own_error(bits, draw, genOk) ==
    IF ~genOk THEN Err("KeyGenerationError")
    ELSE LET private_key == DrawKey(bits, draw)
             public_key == PublicFrom(private_key)
         IN  Ok(<<private_key, public_key,
                  to_pkcs8_pem(private_key), to_public_key_pem(public_key)>>)

generate_rsa_keypair(bits, draw, genOk) ==
    IF ~genOk THEN Err("rsa::errors::Error")
    ELSE LET private_key == DrawKey(bits, draw)
             public_key == PublicFrom(private_key)
         IN  Ok(<<private_key, public_key,
                  to_pkcs8_pem(private_key), to_public_key_pem(public_key)>>)

(***************************************************************************)
(* struct E2ee and its constructors.                                       *)
(***************************************************************************)
E2ee(private_key, public_key, private_key_pem, public_key_pem) ==
    [private_key |-> private_key, public_key |-> public_key,
     private_key_pem |-> private_key_pem, public_key_pem |-> public_key_pem]

E2ee_new(key_size, draw, genOk) ==
    LET bits == as_usize(key_size)
        pair == generate_rsa_keypair(bits, draw, genOk)
    IN  IF IsErr(pair) THEN [steps |-> <<"generate_rsa_keypair">>, out |-> pair]
        ELSE [steps |-> <<"generate_rsa_keypair">>,
              out |-> Ok(E2ee(pair.val[1], pair.val[2], pair.val[3], pair.val[4]))]

\* variant: the public key is derived from the private key, the public PEM
\* is stored without being parsed
E2ee_new_from_pem_derive(private_key_pem, public_key_pem) ==
    LET private_key == from_pkcs8_pem(private_key_pem)
    IN  IF IsErr(private_key)
        THEN [steps |-> <<"from_pkcs8_pem">>, out |-> private_key]
        ELSE [steps |-> <<"from_pkcs8_pem">>,
              out |-> Ok(E2ee(private_key.val, PublicFrom(private_key.val),
                              private_key_pem, public_key_pem))]

\* variant: the identity caches the PEM encoding of the parsed keys
E2ee_new_from_pem_reencoding(private_key_pem, public_key_pem) ==
    LET public_key == from_public_key_pem(public_key_pem)
        private_key == from_pkcs8_pem(private_key_pem)
    IN  IF IsErr(public_key)
        THEN [steps |-> <<"from_public_key_pem">>, out |-> public_key]
        ELSE IF IsErr(private_key)
        THEN [steps |-> <<"from_public_key_pem", "from_pkcs8_pem">>,
              out |-> private_key]
        ELSE [steps |-> <<"from_public_key_pem", "from_pkcs8_pem">>,
              out |-> Ok(E2ee(private_key.val, public_key.val,
                              to_pkcs8_pem(private_key.val),
                              to_public_key_pem(public_key.val)))]

\* variant: a public key that is not the one of the private key is refused
E2ee_new_from_pem_paired(private_key_pem, public_key_pem) ==
    LET public_key == from_public_key_pem(public_key_pem)
        private_key == from_pkcs8_pem(private_key_pem)
    IN  IF IsErr(public_key)
        THEN [steps |-> <<"from_public_key_pem">>, out |-> public_key]
        ELSE IF IsErr(private_key)
        THEN [steps |-> <<"from_public_key_pem", "from_pkcs8_pem">>,
              out |-> private_key]
        ELSE IF PublicFrom(private_key.val) # public_key.val
        THEN [steps |-> <<"from_public_key_pem", "from_pkcs8_pem">>,
              out |-> Err("rsa::errors::Error")]
        ELSE [steps |-> <<"from_public_key_pem", "from_pkcs8_pem">>,
              out |-> Ok(E2ee(private_key.val, public_key.val,
                              private_key_pem, public_key_pem))]

\* variant: the private key is parsed first
E2ee_new_from_pem_private_first(private_key_pem, public_key_pem) ==
    LET public_key == from_public_key_pem(public_key_pem)
        private_key == from_pkcs8_pem(private_key_pem)
    IN  IF IsErr(private_key)
        THEN [steps |-> <<"from_pkcs8_pem">>, out |-> private_key]
        ELSE IF IsErr(public_key)
        THEN [steps |-> <<"from_pkcs8_pem", "from_public_key_pem">>,
              out |-> public_key]
        ELSE [steps |-> <<"from_public_key_pem", "from_pkcs8_pem">>,
              out |-> Ok(E2ee(private_key.val, public_key.val,
                              private_key_pem, public_key_pem))]

E2ee_new_from_pem(private_key_pem, public_key_pem) ==
    LET public_key == from_public_key_pem(public_key_pem)
        private_key == from_pkcs8_pem(private_key_pem)
    IN  IF IsErr(public_key)
        THEN [steps |-> <<"from_public_key_pem">>, out |-> public_key]
        ELSE IF IsErr(private_key)
        THEN [steps |-> <<"from_public_key_pem", "from_pkcs8_pem">>,
              out |-> private_key]
        ELSE [steps |-> <<"from_public_key_pem", "from_pkcs8_pem">>,
              out |-> Ok(E2ee(private_key.val, public_key.val,
                              private_key_pem, public_key_pem))]

(***************************************************************************)
(* struct PublicE2ee and its constructor.                                  *)
(***************************************************************************)
PublicE2ee(public_key, public_key_pem) ==
    [public_key |-> public_key, public_key_pem |-> public_key_pem]

PublicE2ee_new(public_key_pem) ==
    LET public_key == from_public_key_pem(public_key_pem)
    IN  IF IsErr(public_key)
        THEN [steps |-> <<"from_public_key_pem">>, out |-> public_key]
        ELSE [steps |-> <<"from_public_key_pem">>,
              out |-> Ok(PublicE2ee(public_key.val, public_key_pem))]

(***************************************************************************)
(* encrypt (E2ee::encrypt and PublicE2ee::encrypt have the same body) and  *)
(* E2ee::decrypt.  seed is the value OsRng hands to the OAEP padding.      *)
(***************************************************************************)
\* encrypt with padding that takes no randomness
E2ee_encrypt_fixed_seed(self, message, seed) ==
    LET encrypted_data ==
            rsa_encrypt(self.public_key, Rep(0, HashLen), as_bytes(message))
    IN  IF IsErr(encrypted_data)
        THEN [steps |-> <<"rsa_encrypt">>, out |-> encrypted_data]
        ELSE [steps |-> <<"rsa_encrypt", "base64_encode">>,
              out |-> Ok(b64_encode(encrypted_data.val))]

\* encrypt that cuts the message down to what the key can take
E2ee_encrypt_truncating(self, message, seed) ==
    LET bytes == as_bytes(message)
        encrypted_data ==
            rsa_encrypt(self.public_key, seed,
                        SubSeq(bytes, 1, Min(Len(bytes), OaepLimit(self.public_key))))
    IN  IF IsErr(encrypted_data)
        THEN [steps |-> <<"rsa_encrypt">>, out |-> encrypted_data]
        ELSE [steps |-> <<"rsa_encrypt", "base64_encode">>,
              out |-> Ok(b64_encode(encrypted_data.val))]

E2ee_encrypt(self, message, seed) ==
    LET encrypted_data == rsa_encrypt(self.public_key, seed, as_bytes(message))
    IN  IF IsErr(encrypted_data)
        THEN [steps |-> <<"rsa_encrypt">>, out |-> encrypted_data]
        ELSE [steps |-> <<"rsa_encrypt", "base64_encode">>,
              out |-> Ok(b64_encode(encrypted_data.val))]

\* variant: the client cuts the message down to what the key can take
PublicE2ee_encrypt_truncating(self, message, seed) ==
    LET bytes == as_bytes(message)
        encrypted_data ==
            rsa_encrypt(self.public_key, seed,
                        SubSeq(bytes, 1, Min(Len(bytes), OaepLimit(self.public_key))))
    IN  IF IsErr(encrypted_data)
        THEN [steps |-> <<"rsa_encrypt">>, out |-> encrypted_data]
        ELSE [steps |-> <<"rsa_encrypt", "base64_encode">>,
              out |-> Ok(b64_encode(encrypted_data.val))]

PublicE2ee_encrypt(self, message, seed) ==
    LET encrypted_data == rsa_encrypt(self.public_key, seed, as_bytes(message))
    IN  IF IsErr(encrypted_data)
        THEN [steps |-> <<"rsa_encrypt">>, out |-> encrypted_data]
        ELSE [steps |-> <<"rsa_encrypt", "base64_encode">>,
              out |-> Ok(b64_encode(encrypted_data.val))]

\* decrypt that takes every decrypted byte for a character
E2ee_decrypt_latin1(self, ciphertext) ==
    LET encrypted_data == b64_decode(ciphertext)
    IN  IF IsErr(encrypted_data)
        THEN [steps |-> <<"base64_decode">>, out |-> encrypted_data]
        ELSE LET decrypted_data == rsa_decrypt(self.private_key, encrypted_data.val)
             IN  IF IsErr(decrypted_data)
                 THEN [steps |-> <<"base64_decode", "rsa_decrypt">>,
                       out |-> decrypted_data]
                 ELSE [steps |-> <<"base64_decode", "rsa_decrypt", "from_utf8">>,
                       out |-> Ok(decrypted_data.val)]

\* decrypt that goes on with no bytes when the text does not decode
E2ee_decrypt_swallow(self, ciphertext) ==
    LET encrypted_data == b64_decode(ciphertext)
        bytes == IF IsErr(encrypted_data) THEN <<>> ELSE encrypted_data.val
        decrypted_data == rsa_decrypt(self.private_key, bytes)
    IN  IF IsErr(decrypted_data)
        THEN [steps |-> <<"base64_decode", "rsa_decrypt">>, out |-> decrypted_data]
        ELSE [steps |-> <<"base64_decode", "rsa_decrypt", "from_utf8">>,
              out |-> from_utf8(decrypted_data.val)]

E2ee_decrypt(self, ciphertext) ==
    LET encrypted_data == b64_decode(ciphertext)
    IN  IF IsErr(encrypted_data)
        THEN [steps |-> <<"base64_decode">>, out |-> encrypted_data]
        ELSE LET decrypted_data == rsa_decrypt(self.private_key, encrypted_data.val)
             IN  IF IsErr(decrypted_data)
                 THEN [steps |-> <<"base64_decode", "rsa_decrypt">>,
                       out |-> decrypted_data]
                 ELSE [steps |-> <<"base64_decode", "rsa_decrypt", "from_utf8">>,
                       out |-> from_utf8(decrypted_data.val)]

E2ee_get_private_key_pem(self) == self.private_key_pem

E2ee_get_public_key_pem(self) == self.public_key_pem

PublicE2ee_get_public_key_pem(self) == self.public_key_pem

(***************************************************************************)
(* Files.  A file is [exists, data]; data is the text held, line by line.  *)
(* File::create truncates; every handle starts writing at offset 0.        *)
(***************************************************************************)
NoFile == [exists |-> FALSE, data |-> <<>>]

FileOf(text) == [exists |-> TRUE, data |-> text]

\* variant: File::create that leaves an existing file as it is
file_create_keeping(files, path) ==
    IF files[path].exists THEN files ELSE [files EXCEPT ![path] = FileOf(<<>>)]

file_create(files, path) == [files EXCEPT ![path] = FileOf(<<>>)]

write_at(data, off, lines) ==
    LET n == IF Len(data) > off + Len(lines) THEN Len(data) ELSE off + Len(lines)
    IN  [i \in 1..n |-> IF i > off /\ i <= off + Len(lines)
                        THEN lines[i - off] ELSE data[i]]

\* variant: a text-mode write that turns every line ending into LF
file_write_lf(files, path, lines) ==
    [files EXCEPT ![path] =
       FileOf(write_at(files[path].data, 0,
                       [i \in 1..Len(lines) |-> [lines[i] EXCEPT !.eol = "LF"]]))]

file_write(files, path, lines) ==
    [files EXCEPT ![path] = FileOf(write_at(files[path].data, 0, lines))]

Faults == {"none", "create_private", "create_public", "write_private", "write_public"}

(***************************************************************************)
(* E2ee::save_keys_to_files.  fault names the step at which the operating  *)
(* system reports an error, written the number of lines the failing        *)
(* write_all had already written.                                          *)
(***************************************************************************)
\* variant: the result of the last write_all is dropped
save_keys_to_files_lax(self, files, private_path, public_path, fault, written) ==
    LET f1 == file_create(files, private_path)
        f2 == file_create(f1, public_path)
        f3 == file_write(f2, private_path, self.private_key_pem)
        cut(text) == SubSeq(text, 1, Min(written, Len(text) - 1))
    IN  IF fault = "create_private"
        THEN [steps |-> <<"create_private">>, files |-> files,
              out |-> Err("FileWriteError: Failed to create private key file")]
        ELSE IF fault = "create_public"
        THEN [steps |-> <<"create_private", "create_public">>, files |-> f1,
              out |-> Err("FileWriteError: Failed to create public key file")]
        ELSE IF fault = "write_private"
        THEN [steps |-> <<"create_private", "create_public", "write_private">>,
              files |-> file_write(f2, private_path, cut(self.private_key_pem)),
              out |-> Err("FileWriteError: Failed to write private key to file")]
        ELSE [steps |-> <<"create_private", "create_public", "write_private",
                          "write_public">>,
              files |-> file_write(f3, public_path,
                                   IF fault = "write_public"
                                   THEN cut(self.public_key_pem)
                                   ELSE self.public_key_pem),
              out |-> Ok("unit")]

\* variant: the private key file is created and written before the public
\* key file is created
save_keys_to_files_sequential(self, files, private_path, public_path, fault, written) ==
    LET f1 == file_create(files, private_path)
        f2 == file_write(f1, private_path, self.private_key_pem)
        f3 == file_create(f2, public_path)
        f4 == file_write(f3, public_path, self.public_key_pem)
        cut(text) == SubSeq(text, 1, Min(written, Len(text) - 1))
    IN  CASE fault = "create_private" ->
               [steps |-> <<"create_private">>, files |-> files,
                out |-> Err("FileWriteError: Failed to create private key file")]
          [] fault = "write_private" ->
               [steps |-> <<"create_private", "write_private">>,
                files |-> file_write(f1, private_path,
                                     cut(self.private_key_pem)),
                out |-> Err("FileWriteError: Failed to write private key to file")]
          [] fault = "create_public" ->
               [steps |-> <<"create_private", "write_private", "create_public">>,
                files |-> f2,
                out |-> Err("FileWriteError: Failed to create public key file")]
          [] fault = "write_public" ->
               [steps |-> <<"create_private", "write_private", "create_public",
                            "write_public">>,
                files |-> file_write(f3, public_path,
                                     cut(self.public_key_pem)),
                out |-> Err("FileWriteError: Failed to write public key to file")]
          [] OTHER ->
               [steps |-> <<"create_private", "create_public", "write_private",
                            "write_public">>,
                files |-> f4, out |-> Ok("unit")]

\* variant: a failed creation of the public key file is tried once more
save_keys_to_files_retrying(self, files, private_path, public_path, fault, written) ==
    LET f1 == file_create(files, private_path)
        f2 == file_create(f1, public_path)
        f3 == file_write(f2, private_path, self.private_key_pem)
        f4 == file_write(f3, public_path, self.public_key_pem)
        cut(text) == SubSeq(text, 1, Min(written, Len(text) - 1))
    IN  CASE fault = "create_private" ->
               [steps |-> <<"create_private">>, files |-> files,
                out |-> Err("FileWriteError: Failed to create private key file")]
          [] fault = "create_public" ->
               [steps |-> <<"create_private", "create_public", "create_public">>,
                files |-> f1,
                out |-> Err("FileWriteError: Failed to create public key file")]
          [] fault = "write_private" ->
               [steps |-> <<"create_private", "create_public", "write_private">>,
                files |-> file_write(f2, private_path,
                                     cut(self.private_key_pem)),
                out |-> Err("FileWriteError: Failed to write private key to file")]
          [] fault = "write_public" ->
               [steps |-> <<"create_private", "create_public", "write_private",
                            "write_public">>,
                files |-> file_write(f3, public_path,
                                     cut(self.public_key_pem)),
                out |-> Err("FileWriteError: Failed to write public key to file")]
          [] OTHER ->
               [steps |-> <<"create_private", "create_public", "write_private",
                            "write_public">>,
                files |-> f4, out |-> Ok("unit")]

save_keys_to_files(self, files, private_path, public_path, fault, written) ==
    LET f1 == file_create(files, private_path)
        f2 == file_create(f1, public_path)
        f3 == file_write(f2, private_path, self.private_key_pem)
        f4 == file_write(f3, public_path, self.public_key_pem)
        cut(text) == SubSeq(text, 1, Min(written, Len(text) - 1))
    IN  CASE fault = "create_private" ->
               [steps |-> <<"create_private">>, files |-> files,
                out |-> Err("FileWriteError: Failed to create private key file")]
          [] fault = "create_public" ->
               [steps |-> <<"create_private", "create_public">>, files |-> f1,
                out |-> Err("FileWriteError: Failed to create public key file")]
          [] fault = "write_private" ->
               [steps |-> <<"create_private", "create_public", "write_private">>,
                files |-> file_write(f2, private_path,
                                     cut(self.private_key_pem)),
                out |-> Err("FileWriteError: Failed to write private key to file")]
          [] fault = "write_public" ->
               [steps |-> <<"create_private", "create_public", "write_private",
                            "write_public">>,
                files |-> file_write(f3, public_path,
                                     cut(self.public_key_pem)),
                out |-> Err("FileWriteError: Failed to write public key to file")]
          [] OTHER ->
               [steps |-> <<"create_private", "create_public", "write_private",
                            "write_public">>,
                files |-> f4, out |-> Ok("unit")]

(***************************************************************************)
(* The C boundary (ffi.rs).  A pointer is an integer: 0 is the null        *)
(* pointer, every allocation handed out gets an address of its own.  The   *)
(* memory of the boundary is mem = [heap, brk]; a function of the boundary *)
(* is given the memory and returns the memory it leaves and its outcome:   *)
(* a returned pointer, a return without value, a panic (an unwrap() that   *)
(* failed), or what a dereference of an invalid pointer does.              *)
(***************************************************************************)
NullPtr == 0

Ret(p) == [kind |-> "ret", ptr |-> p]

Returned == [kind |-> "void"]

Panicked == [kind |-> "panic"]

\* undefined behaviour: the process is killed, or the call returns with
\* an arbitrary value and an arbitrary memory
Undefined == {"crash", "wild"}

UB(mem, ub) == [mem |-> mem, out |-> [kind |-> ub]]

Boxed(tag, val) == [tag |-> tag, val |-> val]

\* &*p for a pointer p to a value of type tag
Points(mem, p, tag) == p \in DOMAIN mem.heap /\ mem.heap[p].tag = tag

\* Box::into_raw(Box::new(val)), CString::into_raw
into_raw(mem, tag, val) ==
    LET p == mem.brk + 1
    IN  [mem |-> [heap |-> mem.heap @@ (p :> Boxed(tag, val)), brk |-> p],
         out |-> Ret(p)]

\* drop(Box::from_raw(p)), drop(CString::from_raw(p))
drop_from_raw(mem, p) ==
    [mem |-> [heap |-> [a \in DOMAIN mem.heap \ {p} |-> mem.heap[a]],
              brk |-> mem.brk],
     out |-> Returned]

\* CStr::from_ptr(p).to_str() for the bytes c that p points to
to_str(c) == from_utf8(c)

\* CString::new(s): the bytes of s, an error when one of them is NUL
CString_new(s) ==
    LET b == as_bytes(s)
    IN  IF \E i \in 1..Len(b) : b[i] = 0 THEN Err("NulError") ELSE Ok(b)

\* CString::new(s).unwrap().into_raw()
string_into_raw(mem, s) ==
    LET c == CString_new(s)
    IN  IF IsErr(c) THEN [mem |-> mem, out |-> Panicked]
        ELSE into_raw(mem, "CString", c.val)

\* variant: a key size that is not one of the four is taken as 2048
e2ee_server_new_default(mem, key_size, draw, genOk) ==
    LET key_size_enum == CASE key_size = 1024 -> "Bit1024"
                           [] key_size = 3072 -> "Bit3072"
                           [] key_size = 4096 -> "Bit4096"
                           [] OTHER -> "Bit2048"
        r == E2ee_new(key_size_enum, draw, genOk)
    IN  IF IsOk(r.out) THEN into_raw(mem, "E2ee", r.out.val)
        ELSE [mem |-> mem, out |-> Ret(NullPtr)]

e2ee_server_new(mem, key_size, draw, genOk) ==
    IF key_size \notin {1024, 2048, 3072, 4096}
    THEN [mem |-> mem, out |-> Ret(NullPtr)]
    ELSE LET key_size_enum == CASE key_size = 1024 -> "Bit1024"
                                [] key_size = 2048 -> "Bit2048"
                                [] key_size = 3072 -> "Bit3072"
                                [] key_size = 4096 -> "Bit4096"
             r == E2ee_new(key_size_enum, draw, genOk)
         IN  IF IsOk(r.out) THEN into_raw(mem, "E2ee", r.out.val)
             ELSE [mem |-> mem, out |-> Ret(NullPtr)]

\* the two C strings hold PEM text: to_str gives the lines they hold
e2ee_server_new_from_pem(mem, private_key_pem, public_key_pem) ==
    LET r == E2ee_new_from_pem(private_key_pem, public_key_pem)
    IN  IF IsOk(r.out) THEN into_raw(mem, "E2ee", r.out.val)
        ELSE [mem |-> mem, out |-> Ret(NullPtr)]

e2ee_client_new_from_public_pem(mem, public_key) ==
    LET r == PublicE2ee_new(public_key)
    IN  IF IsOk(r.out) THEN into_raw(mem, "PublicE2ee", r.out.val)
        ELSE [mem |-> mem, out |-> Ret(NullPtr)]

\* variant: the handle is taken with Box::from_raw and dropped on return
e2ee_server_encrypt_consuming(mem, e2ee_server, message, seed, ub) ==
    IF ~Points(mem, e2ee_server, "E2ee") THEN UB(mem, ub)
    ELSE LET message_str == to_str(message)
             after == drop_from_raw(mem, e2ee_server).mem
         IN  IF IsErr(message_str) THEN [mem |-> mem, out |-> Panicked]
             ELSE LET r == E2ee_encrypt(mem.heap[e2ee_server].val,
                                        message_str.val, seed)
                  IN  IF IsOk(r.out) THEN string_into_raw(after, r.out.val)
                      ELSE [mem |-> after, out |-> Ret(NullPtr)]

e2ee_server_encrypt(mem, e2ee_server, message, seed, ub) ==
    IF ~Points(mem, e2ee_server, "E2ee") THEN UB(mem, ub)
    ELSE LET message_str == to_str(message)
         IN  IF IsErr(message_str) THEN [mem |-> mem, out |-> Panicked]
             ELSE LET r == E2ee_encrypt(mem.heap[e2ee_server].val,
                                        message_str.val, seed)
                  IN  IF IsOk(r.out) THEN string_into_raw(mem, r.out.val)
                      ELSE [mem |-> mem, out |-> Ret(NullPtr)]

e2ee_client_encrypt(mem, e2ee_client, message, seed, ub) ==
    IF ~Points(mem, e2ee_client, "PublicE2ee") THEN UB(mem, ub)
    ELSE LET message_str == to_str(message)
         IN  IF IsErr(message_str) THEN [mem |-> mem, out |-> Panicked]
             ELSE LET r == PublicE2ee_encrypt(mem.heap[e2ee_client].val,
                                              message_str.val, seed)
                  IN  IF IsOk(r.out) THEN string_into_raw(mem, r.out.val)
                      ELSE [mem |-> mem, out |-> Ret(NullPtr)]

e2ee_server_decrypt(mem, e2ee_server, ciphertext, ub) ==
    IF ~Points(mem, e2ee_server, "E2ee") THEN UB(mem, ub)
    ELSE LET ciphertext_str == to_str(ciphertext)
         IN  IF IsErr(ciphertext_str) THEN [mem |-> mem, out |-> Panicked]
             ELSE LET r == E2ee_decrypt(mem.heap[e2ee_server].val,
                                        ciphertext_str.val)
                  IN  IF IsOk(r.out) THEN string_into_raw(mem, r.out.val)
                      ELSE [mem |-> mem, out |-> Ret(NullPtr)]

\* the PEM text holds no NUL byte: CString::new(..).unwrap() succeeds
e2ee_server_get_public_key_pem(mem, e2ee_server, ub) ==
    IF ~Points(mem, e2ee_server, "E2ee") THEN UB(mem, ub)
    ELSE into_raw(mem, "CString",
                  E2ee_get_public_key_pem(mem.heap[e2ee_server].val))

e2ee_server_get_private_key_pem(mem, e2ee_server, ub) ==
    IF ~Points(mem, e2ee_server, "E2ee") THEN UB(mem, ub)
    ELSE into_raw(mem, "CString",
                  E2ee_get_private_key_pem(mem.heap[e2ee_server].val))

\* variant: the strings handed out are released with the handle
e2ee_server_free_cascading(mem, e2ee_server, ub) ==
    IF e2ee_server = NullPtr THEN [mem |-> mem, out |-> Returned]
    ELSE IF ~Points(mem, e2ee_server, "E2ee") THEN UB(mem, ub)
    ELSE LET kept == {p \in DOMAIN mem.heap :
                         p # e2ee_server /\ mem.heap[p].tag # "CString"}
         IN  [mem |-> [heap |-> [a \in kept |-> mem.heap[a]], brk |-> mem.brk],
              out |-> Returned]

e2ee_server_free(mem, e2ee_server, ub) ==
    IF e2ee_server = NullPtr THEN [mem |-> mem, out |-> Returned]
    ELSE IF ~Points(mem, e2ee_server, "E2ee") THEN UB(mem, ub)
    ELSE drop_from_raw(mem, e2ee_server)

e2ee_client_free(mem, e2ee_client, ub) ==
    IF e2ee_client = NullPtr THEN [mem |-> mem, out |-> Returned]
    ELSE IF ~Points(mem, e2ee_client, "PublicE2ee") THEN UB(mem, ub)
    ELSE drop_from_raw(mem, e2ee_client)

\* variant: a null check as in e2ee_server_free
e2ee_server_free_string_checked(mem, s, ub) ==
    IF s = NullPtr THEN [mem |-> mem, out |-> Returned]
    ELSE IF ~Points(mem, s, "CString") THEN UB(mem, ub)
    ELSE drop_from_raw(mem, s)

e2ee_server_free_string(mem, s, ub) ==
    IF ~Points(mem, s, "CString") THEN UB(mem, ub)
    ELSE drop_from_raw(mem, s)

(***************************************************************************)
(* The command-line program (main.rs).  A run is given the key files and   *)
(* what its environment does (the draws of OsRng, the outcome of the prime *)
(* search, the step of save that fails) and gives the files it leaves,     *)
(* the lines it printed on standard output, the message on standard error  *)
(* and the exit code: main returns anyhow::Result<()>, the runtime prints  *)
(* an Err on standard error and exits with 1, and exits with 0 on Ok.      *)
(***************************************************************************)
\* std::fs::read_to_string(path)
read_to_string(files, path) ==
    IF files[path].exists THEN Ok(files[path].data) ELSE Err("std::io::Error")

Line(label, text) == [label |-> label, text |-> text]

\* return Ok(()) from main
Succeed(files, stdout) ==
    [files |-> files, stdout |-> stdout, stderr |-> <<>>, code |-> 0]

\* `?` in main: the error, under its context if it has one, goes to
\* standard error
Fail(files, stdout, context, error) ==
    [files |-> files, stdout |-> stdout,
     stderr |-> IF context = "" THEN <<error>> ELSE <<context, error>>,
     code |-> 1]

\* variant: the result of save_keys_to_files is not looked at
main_GenerateKeys_ignoring(cmd, files, draw, env) ==
    LET e2ee_server == E2ee_new(cmd.key_size, draw, env.genOk).out
    IN  IF IsErr(e2ee_server)
        THEN Fail(files, <<>>, "Failed to create SDK", e2ee_server.err)
        ELSE LET self == e2ee_server.val
                 shown == <<Line("Public Key Pem:", E2ee_get_public_key_pem(self)),
                            Line("Private Key Pem:", E2ee_get_private_key_pem(self))>>
                 saved == save_keys_to_files(self, files,
                                             cmd.private_key_file_path,
                                             cmd.public_key_file_path,
                                             env.fault, env.written)
             IN  Succeed(saved.files,
                         shown \o <<Line("Public Key Pem is saved to:",
                                         cmd.public_key_file_path),
                                    Line("Private Key Pem is saved to:",
                                         cmd.private_key_file_path)>>)

\* Commands::GenerateKeys
main_GenerateKeys(cmd, files, draw, env) ==
    LET e2ee_server == E2ee_new(cmd.key_size, draw, env.genOk).out
    IN  IF IsErr(e2ee_server)
        THEN Fail(files, <<>>, "Failed to create SDK", e2ee_server.err)
        ELSE LET self == e2ee_server.val
                 shown == <<Line("Public Key Pem:", E2ee_get_public_key_pem(self)),
                            Line("Private Key Pem:", E2ee_get_private_key_pem(self))>>
                 saved == save_keys_to_files(self, files,
                                             cmd.private_key_file_path,
                                             cmd.public_key_file_path,
                                             env.fault, env.written)
             IN  IF IsErr(saved.out)
                 THEN Fail(saved.files, shown, "Failed to save keys to files",
                           saved.out.err)
                 ELSE Succeed(saved.files,
                              shown \o <<Line("Public Key Pem is saved to:",
                                              cmd.public_key_file_path),
                                         Line("Private Key Pem is saved to:",
                                              cmd.private_key_file_path)>>)

\* Commands::Encrypt
main_Encrypt(cmd, files, seed) ==
    LET public_key_pem == read_to_string(files, cmd.public_key_file_path)
    IN  IF IsErr(public_key_pem)
        THEN Fail(files, <<>>, "Failed to read public key file", public_key_pem.err)
        ELSE LET e2ee_client == PublicE2ee_new(public_key_pem.val).out
             IN  IF IsErr(e2ee_client) THEN Fail(files, <<>>, "", e2ee_client.err)
                 ELSE LET encrypted ==
                              PublicE2ee_encrypt(e2ee_client.val, cmd.message, seed).out
                      IN  IF IsErr(encrypted)
                          THEN Fail(files, <<>>, "Failed to encrypt message",
                                    encrypted.err)
                          ELSE Succeed(files, <<Line("Encrypted message:",
                                                     encrypted.val)>>)

\* Commands::Decrypt
main_Decrypt(cmd, files) ==
    LET private_key_pem == read_to_string(files, cmd.private_key_file_path)
        public_key_pem == read_to_string(files, cmd.public_key_file_path)
    IN  IF IsErr(private_key_pem)
        THEN Fail(files, <<>>, "Failed to read private key file", private_key_pem.err)
        ELSE IF IsErr(public_key_pem)
        THEN Fail(files, <<>>, "Failed to read public key file", public_key_pem.err)
        ELSE LET e2ee_server ==
                     E2ee_new_from_pem(private_key_pem.val, public_key_pem.val).out
             IN  IF IsErr(e2ee_server)
                 THEN Fail(files, <<>>, "Failed to create SDK", e2ee_server.err)
                 ELSE LET decrypted == E2ee_decrypt(e2ee_server.val, cmd.ciphertext).out
                      IN  IF IsErr(decrypted)
                          THEN Fail(files, <<>>, "Failed to decrypt message",
                                    decrypted.err)
                          ELSE Succeed(files, <<Line("Decrypted message:",
                                                     decrypted.val)>>)

(***************************************************************************)
(* The state: the identities a caller holds, the key files, the position   *)
(* of OsRng, the ciphertexts produced so far and the last call's result.   *)
(***************************************************************************)
VARIABLES
    srv,     \* srv[h]: the E2ee held under name h, or Null
    born,    \* born[w]: the constructor call that made the identity of w
    cli,     \* the PublicE2ee, or Null
    fs,      \* fs[path]: the file at path
    gen,     \* number of keys drawn from OsRng
    rng,     \* number of OAEP seeds drawn from OsRng
    wire,    \* the last two ciphertexts returned by encrypt, older first
    res,     \* the last call: [op, who, arg, steps, out]
    heap,    \* heap[p]: the allocation the boundary handed out at address p
    brk,     \* number of allocations the boundary has made
    given,   \* the non-null pointers the boundary has returned
    freed    \* the non-null pointers passed to a release function

vars == <<srv, born, cli, fs, gen, rng, wire, res, heap, brk, given, freed>>

Servers == {"a", "b"}

\* the names under which a caller holds identities: two E2ee, one PublicE2ee
Holders == Servers \cup {"client"}

\* a successful constructor call: its name, its arguments, what it returned
Made(op, arg, val) == [op |-> op, arg |-> arg, val |-> val]

Paths == {"private.pem", "public.pem"}

(***************************************************************************)
(* Inputs of the callers.                                                  *)
(***************************************************************************)
\* the key pair of files/private.pem and files/public.pem
FixtureKey == RsaPrivateKey(2048, 101)

FixturePrivatePem == to_pkcs8_pem(FixtureKey)

FixturePublicPem == to_public_key_pem(PublicFrom(FixtureKey))

\* the same keys in files written with CRLF line endings
CrlfPrivatePem == pem_encode("PRIVATE KEY", "pkcs8", FixtureKey, "CRLF")

CrlfPublicPem == pem_encode("PUBLIC KEY", "spki", PublicFrom(FixtureKey), "CRLF")

JunkPem == <<[kind |-> "junk", label |-> "", der |-> NoDer, eol |-> "LF"]>>

\* texts a caller may hand to a constructor: fixed texts, what the files
\* hold (fs::read_to_string) and what the getters of live identities return
PemTexts ==
    {CrlfPrivatePem, CrlfPublicPem, JunkPem}
      \cup {fs[p].data : p \in {q \in Paths : fs[q].exists}}
      \cup {srv[h].private_key_pem : h \in {g \in Servers : srv[g] # Null}}
      \cup {srv[h].public_key_pem : h \in {g \in Servers : srv[g] # Null}}

\* "Hi mom!" followed by a 4-byte character
HiMom == <<72, 105, 32, 109, 111, 109, 33, 128512>>

\* a message of exactly n bytes, n >= 2: 3-byte characters, one 2-byte
\* character and what is left to fill, so that it has far fewer characters
\* than bytes
Filled(n) ==
    LET k == (n - 2) \div 3
        r == n - 3 * k
    IN  Rep(8364, k) \o (CASE r = 2 -> <<233>>
                           [] r = 3 -> <<233, 97>>
                           [] OTHER -> <<233, 233>>)

\* messages: empty, short, the longest accepted one for the key and a
\* rejected one that is one byte longer
Messages(key) ==
    { <<>>, HiMom, Filled(OaepLimit(key)), Filled(OaepLimit(key)) \o <<97>> }

\* ciphertext texts that no encrypt call returned
InvalidBase64String ==
    <<105, 110, 118, 97, 108, 105, 100, 95, 98, 97, 115, 101, 54, 52, 95,
      115, 116, 114, 105, 110, 103>>

\* bytes that are not UTF-8, encrypted by another party with the public key
NotUtf8(self) ==
    b64_encode(rsa_encrypt(self.public_key, DrawSeed(0), <<72, 255, 254>>).val)

ForeignTexts(self) ==
    { InvalidBase64String,           \* '_' and length 1 mod 4
      <<84, 81, 61, 61>>,            \* "TQ==": padded
      <<84, 87, 70, 117, 84>>,       \* "TWFuT": length 1 mod 4
      <<84, 87, 70>>,                \* "TWF": non-zero trailing bits
      <<84, 87, 69>>,                \* "TWE": base64 of 2 bytes
      NotUtf8(self) }

Call(op, who, arg, r) ==
    [op |-> op, who |-> who, arg |-> arg, steps |-> r.steps, out |-> r.out]

(***************************************************************************)
(* Init: no identity yet; an old private.pem exists, public.pem does not.   *)
(***************************************************************************)
Init ==
    /\ srv = [h \in Servers |-> Null]
    /\ born = [w \in Holders |-> Null]
    /\ cli = Null
    /\ fs = [p \in Paths |-> IF p = "private.pem"
                              THEN FileOf(FixturePrivatePem) ELSE NoFile]
    /\ gen = 0
    /\ rng = 0
    /\ wire = <<>>
    /\ res = [op |-> "none", who |-> "", arg |-> <<>>, steps |-> <<>>,
              out |-> Ok("unit")]
    /\ heap = <<>>
    /\ brk = 0
    /\ given = {}
    /\ freed = {}

(***************************************************************************)
(* Constructors.                                                           *)
(***************************************************************************)
New(h, key_size, genOk) ==
    /\ srv[h] = Null
    /\ gen < MaxKeys
    /\ LET r == E2ee_new(key_size, gen + 1, genOk)
       IN  \* the call is recorded with the outcome of its prime search
           /\ res' = Call("new", h, <<key_size, genOk>>, r)
           /\ srv' = IF IsOk(r.out) THEN [srv EXCEPT ![h] = r.out.val] ELSE srv
           /\ born' = IF IsOk(r.out)
                      THEN [born EXCEPT ![h] = Made("new", key_size, r.out.val)]
                      ELSE born
    /\ gen' = gen + 1
    /\ UNCHANGED <<cli, fs, rng, wire, heap, brk, given, freed>>

NewFromPem(h, private_key_pem, public_key_pem) ==
    /\ srv[h] = Null
    /\ LET r == E2ee_new_from_pem(private_key_pem, public_key_pem)
       IN  /\ res' = Call("new_from_pem", h, <<private_key_pem, public_key_pem>>, r)
           /\ srv' = IF IsOk(r.out) THEN [srv EXCEPT ![h] = r.out.val] ELSE srv
           /\ born' = IF IsOk(r.out)
                      THEN [born EXCEPT ![h] =
                              Made("new_from_pem",
                                   <<private_key_pem, public_key_pem>>, r.out.val)]
                      ELSE born
    /\ UNCHANGED <<cli, fs, gen, rng, wire, heap, brk, given, freed>>

ClientNew(public_key_pem) ==
    /\ cli = Null
    /\ LET r == PublicE2ee_new(public_key_pem)
       IN  /\ res' = Call("client_new", "client", public_key_pem, r)
           /\ cli' = IF IsOk(r.out) THEN r.out.val ELSE cli
           /\ born' = IF IsOk(r.out)
                      THEN [born EXCEPT !["client"] =
                              Made("client_new", public_key_pem, r.out.val)]
                      ELSE born
    /\ UNCHANGED <<srv, fs, gen, rng, wire, heap, brk, given, freed>>

(***************************************************************************)
(* Methods.                                                                *)
(***************************************************************************)
Sent(who, key, message, text) ==
    [by |-> who, key |-> key, msg |-> message, text |-> text]

\* the caller keeps the last two ciphertexts
Keep(w, x) == IF w = <<>> THEN <<x>> ELSE <<w[Len(w)], x>>

Encrypt(h, message) ==
    /\ srv[h] # Null
    /\ rng < MaxDraws
    /\ LET r == E2ee_encrypt(srv[h], message, DrawSeed(rng + 1))
       IN  /\ res' = Call("encrypt", h, message, r)
           /\ wire' = IF IsOk(r.out)
                      THEN Keep(wire, Sent(h, srv[h].public_key, message, r.out.val))
                      ELSE wire
           /\ rng' = IF IsOk(r.out) THEN rng + 1 ELSE rng
    /\ UNCHANGED <<srv, born, cli, fs, gen, heap, brk, given, freed>>

ClientEncrypt(message) ==
    /\ cli # Null
    /\ rng < MaxDraws
    /\ LET r == PublicE2ee_encrypt(cli, message, DrawSeed(rng + 1))
       IN  /\ res' = Call("client_encrypt", "client", message, r)
           /\ wire' = IF IsOk(r.out)
                      THEN Keep(wire, Sent("client", cli.public_key, message, r.out.val))
                      ELSE wire
           /\ rng' = IF IsOk(r.out) THEN rng + 1 ELSE rng
    /\ UNCHANGED <<srv, born, cli, fs, gen, heap, brk, given, freed>>

Decrypt(h, ciphertext) ==
    /\ srv[h] # Null
    /\ res' = Call("decrypt", h, ciphertext, E2ee_decrypt(srv[h], ciphertext))
    /\ UNCHANGED <<srv, born, cli, fs, gen, rng, wire, heap, brk, given, freed>>

GetPrivateKeyPem(h) ==
    /\ srv[h] # Null
    /\ res' = [op |-> "get_private_key_pem", who |-> h, arg |-> <<>>,
               steps |-> <<>>, out |-> Ok(E2ee_get_private_key_pem(srv[h]))]
    /\ UNCHANGED <<srv, born, cli, fs, gen, rng, wire, heap, brk, given, freed>>

GetPublicKeyPem(h) ==
    /\ srv[h] # Null
    /\ res' = [op |-> "get_public_key_pem", who |-> h, arg |-> <<>>,
               steps |-> <<>>, out |-> Ok(E2ee_get_public_key_pem(srv[h]))]
    /\ UNCHANGED <<srv, born, cli, fs, gen, rng, wire, heap, brk, given, freed>>

ClientGetPublicKeyPem ==
    /\ cli # Null
    /\ res' = [op |-> "client_get_public_key_pem", who |-> "client", arg |-> <<>>,
               steps |-> <<>>, out |-> Ok(PublicE2ee_get_public_key_pem(cli))]
    /\ UNCHANGED <<srv, born, cli, fs, gen, rng, wire, heap, brk, given, freed>>

\* variant: the call moves the cached private PEM out of the identity
SaveKeys_taking(h, private_key_file_path, public_key_file_path, fault, written) ==
    /\ srv[h] # Null
    /\ LET r == save_keys_to_files(srv[h], fs, private_key_file_path,
                                   public_key_file_path, fault, written)
       IN  /\ res' = Call("save_keys_to_files", h,
                          <<private_key_file_path, public_key_file_path, fault>>,
                          r)
           /\ fs' = r.files
    /\ srv' = [srv EXCEPT ![h].private_key_pem = <<>>]
    /\ UNCHANGED <<born, cli, gen, rng, wire, heap, brk, given, freed>>

SaveKeys(h, private_key_file_path, public_key_file_path, fault, written) ==
    /\ srv[h] # Null
    /\ LET r == save_keys_to_files(srv[h], fs, private_key_file_path,
                                   public_key_file_path, fault, written)
       IN  \* the call is recorded with its paths and the step that failed
           /\ res' = Call("save_keys_to_files", h,
                          <<private_key_file_path, public_key_file_path, fault>>,
                          r)
           /\ fs' = r.files
    /\ UNCHANGED <<srv, born, cli, gen, rng, wire, heap, brk, given, freed>>

Live == {h \in Servers : srv[h] # Null}

WireTexts == {wire[i].text : i \in 1..Len(wire)}

\* a ciphertext as a padding base64 encoder would have written it
Padded(text) == text \o Rep(61, (4 - (Len(text) % 4)) % 4)

\* a caller decrypts what encrypt returned, the padded form of it, or a
\* text that came from elsewhere
Ciphertexts(self) ==
    WireTexts \cup {Padded(t) : t \in WireTexts} \cup ForeignTexts(self)

PathPairs == {<<"private.pem", "public.pem">>, <<"private.pem", "private.pem">>}

(***************************************************************************)
(* NextCipher: a caller that generates identity a, builds a client and     *)
(* encrypts and decrypts.                                                  *)
(***************************************************************************)
NextCipher ==
    \/ \E ks \in KeySize, genOk \in BOOLEAN : New("a", ks, genOk)
    \/ \E pu \in {CrlfPublicPem, JunkPem}
                   \cup {srv[h].public_key_pem : h \in Live} : ClientNew(pu)
    \/ \E h \in Live : \E m \in Messages(srv[h].public_key) : Encrypt(h, m)
    \/ cli # Null /\ \E m \in Messages(cli.public_key) : ClientEncrypt(m)
    \/ \E h \in Live : \E c \in Ciphertexts(srv[h]) : Decrypt(h, c)

SpecCipher == Init /\ [][NextCipher]_vars

(***************************************************************************)
(* NextStore: a caller that generates identity a, saves keys, and loads    *)
(* identity b and a client from PEM texts.                                 *)
(***************************************************************************)
NextStore ==
    \/ \E ks \in {"Bit1024", "Bit2048"}, genOk \in BOOLEAN : New("a", ks, genOk)
    \/ \E pr \in PemTexts, pu \in PemTexts : NewFromPem("b", pr, pu)
    \/ \E pu \in PemTexts : ClientNew(pu)
    \/ \E h \in Live : GetPrivateKeyPem(h)
    \/ \E h \in Live : GetPublicKeyPem(h)
    \/ ClientGetPublicKeyPem
    \/ \E h \in Live, pq \in PathPairs, f \in Faults, w \in 0..1 :
          SaveKeys(h, pq[1], pq[2], f, w)

SpecStore == Init /\ [][NextStore]_vars

(***************************************************************************)
(* Next: a caller that generates identity a, saves its keys, loads         *)
(* identity b from the two key files, builds a client from a public PEM    *)
(* and uses every method of the three identities.                          *)
(***************************************************************************)
\* a message that is encrypted and one that is a byte too long
FewMessages(key) == { HiMom, Filled(OaepLimit(key)) \o <<97>> }

Next ==
    \/ New("a", "Bit1024", TRUE)
    \/ /\ \A p \in Paths : fs[p].exists
       /\ NewFromPem("b", fs["private.pem"].data, fs["public.pem"].data)
    \/ \E h \in Live : ClientNew(srv[h].public_key_pem)
    \/ \E h \in Live : \E m \in FewMessages(srv[h].public_key) : Encrypt(h, m)
    \/ cli # Null /\ \E m \in FewMessages(cli.public_key) : ClientEncrypt(m)
    \/ \E h \in Live : \E c \in WireTexts \cup {InvalidBase64String} :
          Decrypt(h, c)
    \/ \E h \in Live : GetPrivateKeyPem(h)
    \/ \E h \in Live : GetPublicKeyPem(h)
    \/ ClientGetPublicKeyPem
    \/ \E h \in Live, pq \in PathPairs, f \in Faults :
          SaveKeys(h, pq[1], pq[2], f, 1)

Spec == Init /\ [][Next]_vars

(***************************************************************************)
(* NextPair: a caller that generates identity a, builds identity b from a  *)
(* private and a public PEM text, each taken from the key files of the     *)
(* repository or from a live identity, and encrypts and decrypts with both. *)
(***************************************************************************)
PairPrivateTexts ==
    {FixturePrivatePem} \cup {srv[h].private_key_pem : h \in Live}

PairPublicTexts ==
    {FixturePublicPem} \cup {srv[h].public_key_pem : h \in Live}

NextPair ==
    \/ \E ks \in {"Bit1024", "Bit2048"} : New("a", ks, TRUE)
    \/ \E pr \in PairPrivateTexts, pu \in PairPublicTexts : NewFromPem("b", pr, pu)
    \/ \E h \in Live : \E m \in FewMessages(srv[h].public_key) : Encrypt(h, m)
    \/ \E h \in Live : \E c \in WireTexts : Decrypt(h, c)

SpecPair == Init /\ [][NextPair]_vars

(***************************************************************************)
(* NextLimit: a caller that generates identity a with a key of any size,   *)
(* the prime search succeeding or not, and encrypts messages of lengths on *)
(* both sides of the limit.                                                *)
(***************************************************************************)
\* messages of limit - 1, limit and limit + 1 bytes in characters of
\* several bytes, of limit and limit + 1 bytes in ASCII, and of twice the
\* limit
NextLimit ==
    \/ \E ks \in KeySize, genOk \in BOOLEAN : New("a", ks, genOk)
    \/ \E h \in Live :
          LET limit == OaepLimit(srv[h].public_key)
          IN  \E m \in { HiMom, Filled(limit - 1), Filled(limit), Filled(limit + 1),
                         Rep(97, limit), Rep(97, limit + 1), Filled(2 * limit) } :
                 Encrypt(h, m)

SpecLimit == Init /\ [][NextLimit]_vars

(***************************************************************************)
(* NextFail: a caller for whom every internal step of every operation may  *)
(* fail: the prime search, the parsing of either PEM text, the encryption  *)
(* of a long message, each stage of decrypt and each step of save.         *)
(***************************************************************************)
NextFail ==
    \/ \E genOk \in BOOLEAN : New("a", "Bit1024", genOk)
    \/ \E pr \in {FixturePrivatePem, JunkPem}, pu \in {FixturePublicPem, JunkPem} :
          NewFromPem("b", pr, pu)
    \/ \E h \in Live : \E m \in FewMessages(srv[h].public_key) : Encrypt(h, m)
    \/ \E h \in Live :
          \E c \in WireTexts \cup {InvalidBase64String, NotUtf8(srv[h])} :
             Decrypt(h, c)
    \/ \E h \in Live, f \in Faults : SaveKeys(h, "private.pem", "public.pem", f, 1)

SpecFail == Init /\ [][NextFail]_vars

(***************************************************************************)
(* Runs of the command-line program.  The exit of a run is recorded as the *)
(* result of the call; the identities of a run end with its process.       *)
(***************************************************************************)
GenerateKeys(key_size, private_key_file_path, public_key_file_path) ==
    [name |-> "generate-keys", key_size |-> key_size,
     private_key_file_path |-> private_key_file_path,
     public_key_file_path |-> public_key_file_path]

EncryptCmd(public_key_file_path, message) ==
    [name |-> "encrypt", public_key_file_path |-> public_key_file_path,
     message |-> message]

DecryptCmd(private_key_file_path, public_key_file_path, ciphertext) ==
    [name |-> "decrypt", private_key_file_path |-> private_key_file_path,
     public_key_file_path |-> public_key_file_path, ciphertext |-> ciphertext]

Exited(cmd, env, r) ==
    [op |-> "main", who |-> cmd.name, arg |-> <<cmd, env>>, steps |-> <<>>,
     out |-> [kind |-> "exit", code |-> r.code, stdout |-> r.stdout,
              stderr |-> r.stderr]]

RunGenerateKeys(cmd, env) ==
    /\ gen < MaxKeys
    /\ LET r == main_GenerateKeys(cmd, fs, gen + 1, env)
       IN  /\ res' = Exited(cmd, env, r)
           /\ fs' = r.files
    /\ gen' = gen + 1
    /\ UNCHANGED <<srv, born, cli, rng, wire, heap, brk, given, freed>>

RunEncrypt(cmd) ==
    /\ rng < MaxDraws
    /\ LET r == main_Encrypt(cmd, fs, DrawSeed(rng + 1))
           env == [genOk |-> TRUE, fault |-> "none", written |-> 0]
       IN  /\ res' = Exited(cmd, env, r)
           /\ rng' = IF r.code = 0 THEN rng + 1 ELSE rng
           /\ wire' = IF r.code = 0
                      THEN Keep(wire, Sent("main",
                                           from_public_key_pem(
                                               fs[cmd.public_key_file_path].data).val,
                                           cmd.message, r.stdout[1].text))
                      ELSE wire
    /\ UNCHANGED <<srv, born, cli, fs, gen, heap, brk, given, freed>>

RunDecrypt(cmd) ==
    /\ res' = Exited(cmd, [genOk |-> TRUE, fault |-> "none", written |-> 0], main_Decrypt(cmd, fs))
    /\ UNCHANGED <<srv, born, cli, fs, gen, rng, wire, heap, brk, given, freed>>

(***************************************************************************)
(* NextCli: a user who runs generate-keys, encrypt and decrypt on the two  *)
(* default key files, also with the two files exchanged.                   *)
(***************************************************************************)
NextCli ==
    \/ \E ks \in {"Bit1024", "Bit2048"}, genOk \in BOOLEAN, f \in Faults :
          RunGenerateKeys(GenerateKeys(ks, "private.pem", "public.pem"),
                          [genOk |-> genOk, fault |-> f, written |-> 1])
    \/ \E p \in Paths, m \in {HiMom, Filled(100), Filled(200)} :
          RunEncrypt(EncryptCmd(p, m))
    \/ \E pq \in {<<"private.pem", "public.pem">>, <<"public.pem", "private.pem">>} :
          \E c \in WireTexts \cup {InvalidBase64String} :
             RunDecrypt(DecryptCmd(pq[1], pq[2], c))

SpecCli == Init /\ [][NextCli]_vars

(***************************************************************************)
(* The callers of the C boundary.  A caller passes C strings that are      *)
(* valid UTF-8 and pointers the boundary returned and that it has not      *)
(* released; it may pass the null pointer to a getter and to a release     *)
(* function.  After a panic or undefined behaviour nothing more happens.   *)
(***************************************************************************)
Running == res.out.kind \notin {"panic"} \cup Undefined

Mem == [heap |-> heap, brk |-> brk]

Handles(tag) == {p \in DOMAIN heap : heap[p].tag = tag}

\* the outcomes to consider for a call: one when its pointer is valid
Outcomes(valid) == IF valid THEN {"crash"} ELSE Undefined

FfiCall(op, who, arg, r) ==
    /\ res' = [op |-> op, who |-> who, arg |-> arg, steps |-> <<>>, out |-> r.out]
    /\ heap' = r.mem.heap
    /\ brk' = r.mem.brk
    /\ given' = IF r.out.kind = "ret" /\ r.out.ptr # NullPtr
                THEN given \cup {r.out.ptr} ELSE given

\* key sizes a C caller passes (c_int)
FfiKeySizes == {-1, 0, 512, 1024, 4097}

\* a plaintext with a NUL character in it: "a\0b"
NulMessage == <<97, 0, 98>>

\* NulMessage encrypted by a Rust caller of PublicE2ee::encrypt
NulCiphertext(self) ==
    PublicE2ee_encrypt(PublicE2ee(self.public_key, self.public_key_pem),
                       NulMessage, DrawSeed(0)).out.val

Call_e2ee_server_new(key_size, genOk) ==
    /\ Running
    /\ brk < MaxAllocs
    /\ gen < MaxKeys
    /\ FfiCall("e2ee_server_new", NullPtr, <<key_size, genOk>>,
               e2ee_server_new(Mem, key_size, gen + 1, genOk))
    /\ gen' = IF key_size \in {1024, 2048, 3072, 4096} THEN gen + 1 ELSE gen
    /\ UNCHANGED <<srv, born, cli, fs, rng, wire, freed>>

Call_e2ee_server_new_from_pem(private_key_pem, public_key_pem) ==
    /\ Running
    /\ brk < MaxAllocs
    /\ FfiCall("e2ee_server_new_from_pem", NullPtr,
               <<private_key_pem, public_key_pem>>,
               e2ee_server_new_from_pem(Mem, private_key_pem, public_key_pem))
    /\ UNCHANGED <<srv, born, cli, fs, gen, rng, wire, freed>>

Call_e2ee_client_new_from_public_pem(public_key) ==
    /\ Running
    /\ brk < MaxAllocs
    /\ FfiCall("e2ee_client_new_from_public_pem", NullPtr, public_key,
               e2ee_client_new_from_public_pem(Mem, public_key))
    /\ UNCHANGED <<srv, born, cli, fs, gen, rng, wire, freed>>

\* an encrypt call of the boundary: the caller keeps what it returned
FfiEncrypt(op, p, message, r) ==
    /\ FfiCall(op, p, message, r)
    /\ LET made == r.out.kind = "ret" /\ r.out.ptr # NullPtr
       IN  /\ rng' = IF made THEN rng + 1 ELSE rng
           /\ wire' = IF made
                      THEN Keep(wire, Sent(p, heap[p].val.public_key, message,
                                           r.mem.heap[r.out.ptr].val))
                      ELSE wire
    /\ UNCHANGED <<srv, born, cli, fs, gen, freed>>

Call_e2ee_server_encrypt(e2ee_server, message) ==
    /\ Running
    /\ brk < MaxAllocs
    /\ rng < MaxDraws
    /\ \E ub \in Outcomes(e2ee_server \in Handles("E2ee")) :
          FfiEncrypt("e2ee_server_encrypt", e2ee_server, message,
                     e2ee_server_encrypt(Mem, e2ee_server, message,
                                         DrawSeed(rng + 1), ub))

Call_e2ee_client_encrypt(e2ee_client, message) ==
    /\ Running
    /\ brk < MaxAllocs
    /\ rng < MaxDraws
    /\ \E ub \in Outcomes(e2ee_client \in Handles("PublicE2ee")) :
          FfiEncrypt("e2ee_client_encrypt", e2ee_client, message,
                     e2ee_client_encrypt(Mem, e2ee_client, message,
                                         DrawSeed(rng + 1), ub))

Call_e2ee_server_decrypt(e2ee_server, ciphertext) ==
    /\ Running
    /\ brk < MaxAllocs
    /\ \E ub \in Outcomes(e2ee_server \in Handles("E2ee")) :
          FfiCall("e2ee_server_decrypt", e2ee_server, ciphertext,
                  e2ee_server_decrypt(Mem, e2ee_server, ciphertext, ub))
    /\ UNCHANGED <<srv, born, cli, fs, gen, rng, wire, freed>>

Call_e2ee_server_get_public_key_pem(e2ee_server) ==
    /\ Running
    /\ brk < MaxAllocs
    /\ \E ub \in Outcomes(e2ee_server \in Handles("E2ee")) :
          FfiCall("e2ee_server_get_public_key_pem", e2ee_server, <<>>,
                  e2ee_server_get_public_key_pem(Mem, e2ee_server, ub))
    /\ UNCHANGED <<srv, born, cli, fs, gen, rng, wire, freed>>

Call_e2ee_server_get_private_key_pem(e2ee_server) ==
    /\ Running
    /\ brk < MaxAllocs
    /\ \E ub \in Outcomes(e2ee_server \in Handles("E2ee")) :
          FfiCall("e2ee_server_get_private_key_pem", e2ee_server, <<>>,
                  e2ee_server_get_private_key_pem(Mem, e2ee_server, ub))
    /\ UNCHANGED <<srv, born, cli, fs, gen, rng, wire, freed>>

\* a release call of the boundary, recorded when the pointer is not null
FfiFree(op, p, r) ==
    /\ FfiCall(op, p, <<>>, r)
    /\ freed' = IF p # NullPtr THEN freed \cup {p} ELSE freed
    /\ UNCHANGED <<srv, born, cli, fs, gen, rng, wire>>

Call_e2ee_server_free(e2ee_server) ==
    /\ Running
    /\ \E ub \in Outcomes(e2ee_server \in Handles("E2ee")) :
          FfiFree("e2ee_server_free", e2ee_server,
                  e2ee_server_free(Mem, e2ee_server, ub))

Call_e2ee_client_free(e2ee_client) ==
    /\ Running
    /\ \E ub \in Outcomes(e2ee_client \in Handles("PublicE2ee")) :
          FfiFree("e2ee_client_free", e2ee_client,
                  e2ee_client_free(Mem, e2ee_client, ub))

Call_e2ee_server_free_string(s) ==
    /\ Running
    /\ \E ub \in Outcomes(s \in Handles("CString")) :
          FfiFree("e2ee_server_free_string", s,
                  e2ee_server_free_string(Mem, s, ub))

(***************************************************************************)
(* NextFfi: a C caller that makes a server from a key size or from the     *)
(* fixture PEM texts, a client from a PEM text, encrypts, decrypts, reads  *)
(* the PEM texts and releases what it was given.  It holds one server and  *)
(* one client at a time.                                                   *)
(***************************************************************************)
\* the C strings a caller decrypts: what encrypt returned, a text that is
\* not base64, and a ciphertext made elsewhere from a text with a NUL
FfiCiphertexts(self) ==
    WireTexts \cup {as_bytes(InvalidBase64String), as_bytes(NulCiphertext(self))}

NextFfi ==
    \/ /\ Handles("E2ee") = {}
       /\ \E ks \in FfiKeySizes, genOk \in BOOLEAN : Call_e2ee_server_new(ks, genOk)
    \/ /\ Handles("E2ee") = {}
       /\ \E pr \in {FixturePrivatePem, JunkPem}, pu \in {FixturePublicPem, JunkPem} :
             Call_e2ee_server_new_from_pem(pr, pu)
    \/ /\ Handles("PublicE2ee") = {}
       /\ \E pu \in {FixturePublicPem, JunkPem} :
             Call_e2ee_client_new_from_public_pem(pu)
    \/ \E p \in Handles("E2ee") :
          \E m \in FewMessages(heap[p].val.public_key) :
             Call_e2ee_server_encrypt(p, as_bytes(m))
    \/ \E p \in Handles("PublicE2ee") :
          \E m \in FewMessages(heap[p].val.public_key) :
             Call_e2ee_client_encrypt(p, as_bytes(m))
    \/ \E p \in Handles("E2ee") :
          \E c \in FfiCiphertexts(heap[p].val) : Call_e2ee_server_decrypt(p, c)
    \/ \E p \in Handles("E2ee") \cup {NullPtr} :
          Call_e2ee_server_get_public_key_pem(p)
    \/ \E p \in Handles("E2ee") \cup {NullPtr} :
          Call_e2ee_server_get_private_key_pem(p)
    \/ \E p \in Handles("E2ee") \cup {NullPtr} : Call_e2ee_server_free(p)
    \/ \E p \in Handles("PublicE2ee") \cup {NullPtr} : Call_e2ee_client_free(p)
    \/ \E s \in Handles("CString") \cup {NullPtr} : Call_e2ee_server_free_string(s)

SpecFfi == Init /\ [][NextFfi]_vars

(***************************************************************************)
(* Text inputs of the boundary functions.  The caller keeps a text in a    *)
(* buffer of its own and passes its address as *const c_char; the function *)
(* reads the text through CStr::from_ptr, which borrows the buffer, and    *)
(* copies it (to_string, or the String the engine builds).  The caller's   *)
(* buffers are in the same memory as the allocations of the library, at    *)
(* addresses of their own below zero, one for each kind of text.           *)
(***************************************************************************)
PrivatePemBuf == -1

PublicPemBuf == -2

MessageBuf == -3

CiphertextBuf == -4

\* variant: the text is taken over as by CString::from_raw and released
\* when the function is done with it
CStr_from_ptr_owning(mem, p) ==
    [mem |-> [heap |-> [a \in DOMAIN mem.heap \ {p} |-> mem.heap[a]],
              brk |-> mem.brk],
     text |-> mem.heap[p].val]

\* CStr::from_ptr(p): the text at p, the memory as it is
CStr_from_ptr(mem, p) == [mem |-> mem, text |-> mem.heap[p].val]

\* the caller puts a text into one of its buffers
CallerWrite(buf, text) ==
    /\ Running
    /\ buf \notin DOMAIN heap
    /\ heap' = heap @@ (buf :> Boxed("c_char", text))
    /\ res' = [op |-> "caller_write", who |-> buf, arg |-> <<>>, steps |-> <<>>,
               out |-> Returned]
    /\ UNCHANGED <<srv, born, cli, fs, gen, rng, wire, brk, given, freed>>

\* the caller frees one of its buffers
CallerFree(buf) ==
    /\ Running
    /\ buf \in DOMAIN heap
    /\ heap' = [a \in DOMAIN heap \ {buf} |-> heap[a]]
    /\ res' = [op |-> "caller_free", who |-> buf, arg |-> <<>>, steps |-> <<>>,
               out |-> Returned]
    /\ UNCHANGED <<srv, born, cli, fs, gen, rng, wire, brk, given, freed>>

Ptr_e2ee_server_new_from_pem(private_key_pem, public_key_pem) ==
    /\ Running
    /\ brk < MaxAllocs
    /\ {private_key_pem, public_key_pem} \subseteq DOMAIN heap
    /\ LET private_key == CStr_from_ptr(Mem, private_key_pem)
           public_key == CStr_from_ptr(private_key.mem, public_key_pem)
       IN  FfiCall("e2ee_server_new_from_pem", NullPtr,
                   <<private_key_pem, public_key_pem>>,
                   e2ee_server_new_from_pem(public_key.mem, private_key.text,
                                            public_key.text))
    /\ UNCHANGED <<srv, born, cli, fs, gen, rng, wire, freed>>

Ptr_e2ee_client_new_from_public_pem(public_key) ==
    /\ Running
    /\ brk < MaxAllocs
    /\ public_key \in DOMAIN heap
    /\ LET key == CStr_from_ptr(Mem, public_key)
       IN  FfiCall("e2ee_client_new_from_public_pem", NullPtr, <<public_key>>,
                   e2ee_client_new_from_public_pem(key.mem, key.text))
    /\ UNCHANGED <<srv, born, cli, fs, gen, rng, wire, freed>>

PtrEncrypt(op, p, message, text, r) ==
    /\ FfiCall(op, p, <<message>>, r)
    /\ LET made == r.out.kind = "ret" /\ r.out.ptr # NullPtr
       IN  /\ rng' = IF made THEN rng + 1 ELSE rng
           /\ wire' = IF made
                      THEN Keep(wire, Sent(p, heap[p].val.public_key, text,
                                           r.mem.heap[r.out.ptr].val))
                      ELSE wire
    /\ UNCHANGED <<srv, born, cli, fs, gen, freed>>

Ptr_e2ee_server_encrypt(e2ee_server, message) ==
    /\ Running
    /\ brk < MaxAllocs
    /\ rng < MaxDraws
    /\ message \in DOMAIN heap
    /\ LET m == CStr_from_ptr(Mem, message)
       IN  PtrEncrypt("e2ee_server_encrypt", e2ee_server, message, m.text,
                      e2ee_server_encrypt(m.mem, e2ee_server, m.text,
                                          DrawSeed(rng + 1), "crash"))

Ptr_e2ee_client_encrypt(e2ee_client, message) ==
    /\ Running
    /\ brk < MaxAllocs
    /\ rng < MaxDraws
    /\ message \in DOMAIN heap
    /\ LET m == CStr_from_ptr(Mem, message)
       IN  PtrEncrypt("e2ee_client_encrypt", e2ee_client, message, m.text,
                      e2ee_client_encrypt(m.mem, e2ee_client, m.text,
                                          DrawSeed(rng + 1), "crash"))

Ptr_e2ee_server_decrypt(e2ee_server, ciphertext) ==
    /\ Running
    /\ brk < MaxAllocs
    /\ ciphertext \in DOMAIN heap
    /\ LET c == CStr_from_ptr(Mem, ciphertext)
       IN  FfiCall("e2ee_server_decrypt", e2ee_server, <<ciphertext>>,
                   e2ee_server_decrypt(c.mem, e2ee_server, c.text, "crash"))
    /\ UNCHANGED <<srv, born, cli, fs, gen, rng, wire, freed>>

(***************************************************************************)
(* NextBorrow: a caller that keeps its texts in buffers, passes them to    *)
(* the five functions that take text, and frees a buffer when it likes,    *)
(* before or after the handle built from it is used.                       *)
(***************************************************************************)
NextBorrow ==
    \/ CallerWrite(PrivatePemBuf, FixturePrivatePem)
    \/ \E pu \in {FixturePublicPem, JunkPem} : CallerWrite(PublicPemBuf, pu)
    \/ \E m \in {HiMom, Filled(200)} : CallerWrite(MessageBuf, as_bytes(m))
    \/ \E c \in WireTexts \cup {as_bytes(InvalidBase64String)} :
          CallerWrite(CiphertextBuf, c)
    \/ \E buf \in {PrivatePemBuf, PublicPemBuf, MessageBuf, CiphertextBuf} :
          CallerFree(buf)
    \/ /\ Handles("E2ee") = {}
       /\ Ptr_e2ee_server_new_from_pem(PrivatePemBuf, PublicPemBuf)
    \/ /\ Handles("PublicE2ee") = {}
       /\ Ptr_e2ee_client_new_from_public_pem(PublicPemBuf)
    \/ \E p \in Handles("E2ee") : Ptr_e2ee_server_encrypt(p, MessageBuf)
    \/ \E p \in Handles("PublicE2ee") : Ptr_e2ee_client_encrypt(p, MessageBuf)
    \/ \E p \in Handles("E2ee") : Ptr_e2ee_server_decrypt(p, CiphertextBuf)
    \/ \E p \in Handles("E2ee") : Call_e2ee_server_get_public_key_pem(p)
    \/ \E p \in Handles("E2ee") : Call_e2ee_server_free(p)

SpecBorrow == Init /\ [][NextBorrow]_vars

(***************************************************************************)
(* Vocabulary of the properties.                                           *)
(***************************************************************************)
\* the error classes of the specification
CryptoError(e) == e = "rsa::errors::Error"

EncodingError(e) == e \in {"base64::DecodeError", "FromUtf8Error"}

KeyFormatError(e) == e \in {"spki::Error", "pkcs8::Error"}

PersistenceError(e) ==
    e \in {"FileWriteError: Failed to create private key file",
           "FileWriteError: Failed to create public key file",
           "FileWriteError: Failed to write private key to file",
           "FileWriteError: Failed to write public key to file"}

\* the standard base64 alphabet: A-Z, a-z, 0-9, '+', '/'
Base64Alphabet == (65..90) \cup (97..122) \cup (48..57) \cup {43, 47}

\* characters whose low four bits, resp. low two bits, are zero
LowFourZero == {65, 81, 103, 119}

LowTwoZero ==
    {65, 69, 73, 77, 81, 85, 89, 99, 103, 107, 111, 115, 119, 48, 52, 56}

\* text is unpadded standard base64 of some byte string
ValidNoPad(text) ==
    /\ \A i \in 1..Len(text) : text[i] \in Base64Alphabet
    /\ Len(text) % 4 # 1
    /\ Len(text) % 4 = 2 => text[Len(text)] \in LowFourZero
    /\ Len(text) % 4 = 3 => text[Len(text)] \in LowTwoZero

\* identity x holds the private key that belongs to public key pub
HoldsKeyOf(x, pub) == PublicFrom(x.private_key) = pub

\* identity x holds the two keys of one pair
Paired(x) == HoldsKeyOf(x, x.public_key)

\* the public key that call res encrypted with
KeyOfCall ==
    IF res.op = "client_encrypt" THEN cli.public_key ELSE srv[res.who].public_key

IsEncryptCall == res.op \in {"encrypt", "client_encrypt"}

(***************************************************************************)
(* C1  Round trip.  A generated identity encrypts every message of at most *)
(* OaepLimit bytes, and decrypting a ciphertext that it returned gives     *)
(* back exactly the message.                                               *)
(***************************************************************************)
C1_RoundTrip ==
    /\ (res.op = "encrypt" /\ Paired(srv[res.who])
          /\ Len(as_bytes(res.arg)) <= OaepLimit(srv[res.who].public_key))
         => IsOk(res.out)
    /\ res.op = "decrypt" /\ Paired(srv[res.who])
         => \A i \in 1..Len(wire) :
               (wire[i].by = res.who /\ wire[i].text = res.arg)
                 => res.out = Ok(wire[i].msg)

C1_Witness ==
    /\ res.op = "decrypt" /\ res.who = "a"
    /\ srv["a"].public_key.bits = 4096
    /\ \E i \in 1..Len(wire) :
          /\ wire[i].by = "a" /\ wire[i].text = res.arg
          /\ wire[i].msg = Filled(446)
          /\ res.out = Ok(wire[i].msg)

(***************************************************************************)
(* C2  Non-determinism.  Two ciphertexts of the same message under the     *)
(* same public key differ, and each of them decrypts to the message.       *)
(***************************************************************************)
Twins(i, j) ==
    /\ i # j
    /\ wire[i].key = wire[j].key
    /\ wire[i].msg = wire[j].msg

C2_NonDeterminism ==
    \A i, j \in 1..Len(wire) :
       Twins(i, j) =>
          /\ wire[i].text # wire[j].text
          /\ (res.op = "decrypt" /\ res.arg = wire[i].text
                /\ HoldsKeyOf(srv[res.who], wire[i].key))
               => res.out = Ok(wire[i].msg)

C2_Witness ==
    /\ Len(wire) = 2 /\ Twins(1, 2)
    /\ wire[1].text # wire[2].text
    /\ res.op = "decrypt" /\ res.arg = wire[1].text
    /\ res.out = Ok(wire[2].msg)

(***************************************************************************)
(* C3  Oversized input.  encrypt of a message longer than OaepLimit bytes, *)
(* on the server and on the client, returns the RSA error without reaching *)
(* the encoding step, and no ciphertext exists for such a message.         *)
(***************************************************************************)
C3_OversizedRejected ==
    /\ (IsEncryptCall /\ Len(as_bytes(res.arg)) > OaepLimit(KeyOfCall))
         => /\ IsErr(res.out)
            /\ CryptoError(res.out.err)
            /\ res.steps = <<"rsa_encrypt">>
    /\ \A i \in 1..Len(wire) :
          Len(as_bytes(wire[i].msg)) <= OaepLimit(wire[i].key)

C3_Witness ==
    /\ res.op = "client_encrypt"
    /\ Len(as_bytes(res.arg)) = OaepLimit(cli.public_key) + 1
    /\ Len(res.arg) < OaepLimit(cli.public_key)
    /\ IsErr(res.out)
    /\ Len(wire) > 0

(***************************************************************************)
(* C4  Malformed ciphertext text.  decrypt of a text with a character      *)
(* outside the alphabet (a '=' included) or of length 1 mod 4 returns an   *)
(* error: no plaintext and no other outcome.                               *)
(***************************************************************************)
Malformed(text) ==
    \/ \E i \in 1..Len(text) : text[i] \notin Base64Alphabet
    \/ Len(text) % 4 = 1

C4_MalformedRejected ==
    (res.op = "decrypt" /\ Malformed(res.arg)) => res.out.kind = "Err"

\* the padded form of a ciphertext that encrypt returned is rejected
C4_Witness ==
    /\ res.op = "decrypt"
    /\ \E i \in 1..Len(wire) :
          /\ HoldsKeyOf(srv[res.who], wire[i].key)
          /\ res.arg # wire[i].text
          /\ res.arg = Padded(wire[i].text)
    /\ res.out.kind = "Err"

(***************************************************************************)
(* C5  decrypt runs base64-decode, RSA-OAEP decrypt, UTF-8 decode in this  *)
(* order and stops at the first failure: a text that is not base64 gives   *)
(* the decode error before RSA is tried, base64 that is no ciphertext of   *)
(* the key gives the RSA error before UTF-8 is tried, a ciphertext of      *)
(* bytes that are not UTF-8 gives the UTF-8 error, and a plaintext comes   *)
(* only out of three successful stages.                                    *)
(***************************************************************************)
\* text is a ciphertext made with the public key of the private key of x
CiphertextFor(x, text) ==
    \/ \E i \in 1..Len(wire) : wire[i].text = text /\ HoldsKeyOf(x, wire[i].key)
    \/ Paired(x) /\ text = NotUtf8(x)

C5_DecryptPipeline ==
    res.op = "decrypt" =>
       LET x == srv[res.who]
       IN  /\ ~ValidNoPad(res.arg)
                => /\ res.steps = <<"base64_decode">>
                   /\ IsErr(res.out) /\ res.out.err = "base64::DecodeError"
                   /\ EncodingError(res.out.err)
           /\ (ValidNoPad(res.arg) /\ ~CiphertextFor(x, res.arg))
                => /\ res.steps = <<"base64_decode", "rsa_decrypt">>
                   /\ IsErr(res.out) /\ CryptoError(res.out.err)
           /\ (Paired(x) /\ res.arg = NotUtf8(x))
                => /\ res.steps = <<"base64_decode", "rsa_decrypt", "from_utf8">>
                   /\ IsErr(res.out) /\ res.out.err = "FromUtf8Error"
                   /\ EncodingError(res.out.err)
           /\ IsOk(res.out)
                => /\ res.steps = <<"base64_decode", "rsa_decrypt", "from_utf8">>
                   /\ ValidNoPad(res.arg)
                   /\ CiphertextFor(x, res.arg)

\* a ciphertext made for another key fails in the RSA stage
C5_Witness ==
    /\ res.op = "decrypt"
    /\ \E i \in 1..Len(wire) :
          wire[i].text = res.arg /\ ~HoldsKeyOf(srv[res.who], wire[i].key)
    /\ res.steps = <<"base64_decode", "rsa_decrypt">>
    /\ IsErr(res.out) /\ CryptoError(res.out.err)

(***************************************************************************)
(* Vocabulary of the key storage properties.                               *)
(***************************************************************************)
\* text is the PEM encoding, under label and fmt, of the key its body names,
\* every line ending in LF or CRLF
EncodesKey(text, label, fmt) ==
    /\ Len(text) = Len(pem_encode(label, fmt, Null, "LF"))
    /\ \A i \in 1..Len(text) : text[i].eol \in {"LF", "CRLF"}
    /\ text = [i \in 1..Len(text) |->
                 pem_encode(label, fmt, text[2].der.key, text[i].eol)[i]]

WellFormedPrivate(text) == EncodesKey(text, "PRIVATE KEY", "pkcs8")

WellFormedPublic(text) == EncodesKey(text, "PUBLIC KEY", "spki")

IsSaveCall == res.op = "save_keys_to_files"

\* the last call saved to two different files
TwoFiles == res.arg[1] # res.arg[2]

AllSaveSteps ==
    <<"create_private", "create_public", "write_private", "write_public">>

(***************************************************************************)
(* C6  Persistence idempotence.  After save_keys_to_files returned Ok for  *)
(* two files, new_from_pem applied to the contents of the private key file *)
(* and of the public key file returns an identity, and the two PEM strings *)
(* of that identity equal, line by line and line ending by line ending,    *)
(* those of the identity that saved.                                       *)
(***************************************************************************)
C6_PersistenceIdempotence ==
    (IsSaveCall /\ IsOk(res.out) /\ TwoFiles) =>
       LET self == srv[res.who]
           loaded == E2ee_new_from_pem(fs[res.arg[1]].data,
                                       fs[res.arg[2]].data).out
       IN  /\ IsOk(loaded)
           /\ E2ee_get_private_key_pem(loaded.val)
                = E2ee_get_private_key_pem(self)
           /\ E2ee_get_public_key_pem(loaded.val)
                = E2ee_get_public_key_pem(self)

\* a generated identity a saved its keys over an old private.pem, b was
\* loaded from the two files, a saved again: b has the PEM strings of a
C6_Witness ==
    /\ IsSaveCall /\ IsOk(res.out) /\ TwoFiles /\ res.who = "a"
    /\ born["a"] # Null /\ born["a"].op = "new"
    /\ born["b"] # Null /\ born["b"].op = "new_from_pem"
    /\ born["b"].arg = <<fs[res.arg[1]].data, fs[res.arg[2]].data>>
    /\ res.arg[3] = "none"
    /\ fs[res.arg[1]].data # FixturePrivatePem
    /\ srv["b"].private_key_pem = srv["a"].private_key_pem
    /\ srv["b"].public_key_pem = srv["a"].public_key_pem

(***************************************************************************)
(* C7  Outcome of save_keys_to_files.  The call returns a FileWriteError   *)
(* whenever one of its four steps (create private, create public, write    *)
(* private, write public) fails, and Ok when none fails; when it returns   *)
(* Ok all four steps ran, both files exist, and two different files hold   *)
(* the cached private and public PEM in full, whether or not a file was    *)
(* there before.                                                           *)
(***************************************************************************)
C7_SaveOutcome ==
    IsSaveCall =>
       LET private_path == res.arg[1]
           public_path == res.arg[2]
           fault == res.arg[3]
       IN  /\ fault # "none" => IsErr(res.out) /\ PersistenceError(res.out.err)
           /\ fault = "none" => IsOk(res.out)
           /\ IsOk(res.out) =>
                /\ res.steps = AllSaveSteps
                /\ fs[private_path].exists /\ fs[public_path].exists
                /\ TwoFiles =>
                     /\ fs[private_path] = FileOf(srv[res.who].private_key_pem)
                     /\ fs[public_path] = FileOf(srv[res.who].public_key_pem)

\* the write of the public key failed: the call returned a FileWriteError
\* after the old private.pem had been replaced by the private PEM
C7_Witness ==
    /\ IsSaveCall /\ IsErr(res.out) /\ TwoFiles
    /\ res.arg[3] = "write_public"
    /\ res.out.err = "FileWriteError: Failed to write public key to file"
    /\ fs[res.arg[1]].data = srv[res.who].private_key_pem
    /\ fs[res.arg[1]].data # FixturePrivatePem
    /\ fs[res.arg[2]].exists
    /\ fs[res.arg[2]].data # srv[res.who].public_key_pem

(***************************************************************************)
(* C8  new_from_pem and malformed PEM.  When the private PEM or the public  *)
(* PEM is not well formed, whatever the other is, new_from_pem returns a   *)
(* key format error (spki::Error or pkcs8::Error) and the caller holds no  *)
(* identity; when both are well formed it returns an identity.             *)
(***************************************************************************)
C8_MalformedPemRejected ==
    res.op = "new_from_pem" =>
       LET malformed == \/ ~WellFormedPrivate(res.arg[1])
                        \/ ~WellFormedPublic(res.arg[2])
       IN  /\ malformed => /\ IsErr(res.out)
                           /\ KeyFormatError(res.out.err)
                           /\ srv[res.who] = Null
                           /\ born[res.who] = Null
           /\ ~malformed => /\ IsOk(res.out)
                            /\ srv[res.who] = res.out.val

\* the public PEM is well formed, the private PEM alone is malformed
C8_Witness ==
    /\ res.op = "new_from_pem"
    /\ WellFormedPublic(res.arg[2])
    /\ ~WellFormedPrivate(res.arg[1])
    /\ res.arg[1] # <<>>
    /\ IsErr(res.out) /\ res.out.err = "pkcs8::Error"
    /\ srv[res.who] = Null

(***************************************************************************)
(* C9  The PEM getters return the construction text.  For an E2ee built    *)
(* by new_from_pem, get_private_key_pem and get_public_key_pem return the  *)
(* first and the second argument of new_from_pem; for a PublicE2ee,        *)
(* get_public_key_pem returns the argument of PublicE2ee::new; line        *)
(* endings included, never the encoding of the parsed key.                 *)
(***************************************************************************)
C9_GettersReturnConstructionText ==
    /\ (res.op = "get_private_key_pem" /\ born[res.who].op = "new_from_pem")
          => res.out = Ok(born[res.who].arg[1])
    /\ (res.op = "get_public_key_pem" /\ born[res.who].op = "new_from_pem")
          => res.out = Ok(born[res.who].arg[2])
    /\ res.op = "client_get_public_key_pem"
          => res.out = Ok(born["client"].arg)

\* the getter returned a text with CRLF line endings, which differs from
\* the encoding of the key it parses to
C9_Witness ==
    /\ res.op = "get_public_key_pem"
    /\ born[res.who].op = "new_from_pem"
    /\ res.out = Ok(CrlfPublicPem)
    /\ born[res.who].arg[2] = CrlfPublicPem
    /\ res.out.val # to_public_key_pem(srv[res.who].public_key)

(***************************************************************************)
(* C10  Identities are immutable.  Whatever encrypt, decrypt, getter and   *)
(* save_keys_to_files calls were made, and whether they succeeded or       *)
(* failed, every E2ee and the PublicE2ee held by the caller equals the     *)
(* value its constructor returned (keys and cached PEM strings), and the   *)
(* result of the last decrypt or getter call is the result that the same   *)
(* call gives on the identity as constructed.                              *)
(***************************************************************************)
C10_IdentitiesImmutable ==
    /\ \A h \in Servers :
          srv[h] # Null => born[h] # Null /\ srv[h] = born[h].val
    /\ cli # Null => born["client"] # Null /\ cli = born["client"].val
    /\ res.op = "decrypt"
          => res.out = E2ee_decrypt(born[res.who].val, res.arg).out
    /\ res.op = "get_private_key_pem"
          => res.out = Ok(born[res.who].val.private_key_pem)
    /\ res.op = "get_public_key_pem"
          => res.out = Ok(born[res.who].val.public_key_pem)
    /\ res.op = "client_get_public_key_pem"
          => res.out = Ok(born["client"].val.public_key_pem)

\* a decrypts a ciphertext after two encrypt calls, a successful save (b
\* was loaded from the files) and a failed save that left private.pem
\* without the private PEM
C10_Witness ==
    /\ res.op = "decrypt" /\ res.who = "a" /\ IsOk(res.out)
    /\ rng = 2
    /\ srv["b"] # Null /\ cli # Null
    /\ fs["private.pem"].data # srv["a"].private_key_pem
    /\ srv["a"] = born["a"].val

(***************************************************************************)
(* C11  Client and server encrypt are one operation.  For a PublicE2ee     *)
(* built from the public PEM of E2ee h: the client's encrypt returns what  *)
(* h's encrypt returns for the same message and the same random seed (a    *)
(* ciphertext or the RSA error) and conversely, and h decrypts every       *)
(* ciphertext of the client to the message.                                *)
(***************************************************************************)
BuiltFrom(h) ==
    /\ srv[h] # Null
    /\ born["client"] # Null
    /\ born["client"].arg = srv[h].public_key_pem

C11_ClientServerSameEncrypt ==
    \A h \in Servers :
       BuiltFrom(h) =>
          /\ res.op = "client_encrypt" =>
               LET r == E2ee_encrypt(srv[h], res.arg, DrawSeed(rng))
               IN  res.out = r.out /\ res.steps = r.steps
          /\ (res.op = "encrypt" /\ res.who = h) =>
               LET r == PublicE2ee_encrypt(cli, res.arg, DrawSeed(rng))
               IN  res.out = r.out /\ res.steps = r.steps
          /\ (res.op = "decrypt" /\ res.who = h) =>
               \A i \in 1..Len(wire) :
                  (wire[i].by = "client" /\ wire[i].text = res.arg)
                    => res.out = Ok(wire[i].msg)

\* a decrypted, to the message, a ciphertext made by the client that was
\* built from a's public PEM
C11_Witness ==
    /\ BuiltFrom("a")
    /\ res.op = "decrypt" /\ res.who = "a"
    /\ \E i \in 1..Len(wire) :
          /\ wire[i].by = "client" /\ wire[i].text = res.arg
          /\ wire[i].key = srv["a"].public_key
          /\ res.out = Ok(wire[i].msg)

(***************************************************************************)
(* C12  Boundary symmetry of the key encoding.  new_from_pem applied to    *)
(* the two PEM strings of a generated identity returns an identity, and    *)
(* the generated identity and the one built from its PEM strings are       *)
(* interchangeable: each decrypts, to the message, every ciphertext that   *)
(* either of them produced.                                                *)
(***************************************************************************)
\* the PEM strings that E2ee::new produced for identity a
PemsOfGenerated ==
    <<born["a"].val.private_key_pem, born["a"].val.public_key_pem>>

\* b was built from the PEM strings of the generated identity a
Reloaded ==
    /\ born["a"] # Null /\ born["a"].op = "new"
    /\ born["b"] # Null /\ born["b"].arg = PemsOfGenerated

C12_BoundarySymmetry ==
    /\ (res.op = "new_from_pem" /\ born["a"] # Null /\ res.arg = PemsOfGenerated)
          => IsOk(res.out)
    /\ (Reloaded /\ res.op = "decrypt")
          => \A i \in 1..Len(wire) :
                wire[i].text = res.arg => res.out = Ok(wire[i].msg)

\* the generated identity decrypted a ciphertext of the identity built from
\* its PEM strings, and that identity decrypts the older ciphertext, which
\* the generated identity produced
C12_Witness ==
    /\ Reloaded
    /\ res.op = "decrypt" /\ res.who = "a" /\ Len(wire) = 2
    /\ wire[1].by = "a" /\ wire[2].by = "b" /\ wire[2].text = res.arg
    /\ res.out = Ok(wire[2].msg)
    /\ E2ee_decrypt(srv["b"], wire[1].text).out = Ok(wire[1].msg)

(***************************************************************************)
(* C13  Ciphertext format.  Every ciphertext that encrypt returns, on the  *)
(* server or on the client, is made of characters of the standard base64   *)
(* alphabet only (no '=', no space, no line break), is the unpadded        *)
(* encoding of as many bytes as the modulus has, and has 171, 342, 512 or  *)
(* 683 characters for a key of 1024, 2048, 3072 or 4096 bits, whatever the *)
(* length of the message.                                                  *)
(***************************************************************************)
CiphertextLen(bits) ==
    CASE bits = 1024 -> 171
      [] bits = 2048 -> 342
      [] bits = 3072 -> 512
      [] bits = 4096 -> 683

WellFormedCiphertext(text, bits) ==
    /\ \A i \in 1..Len(text) : text[i] \in Base64Alphabet
    /\ ValidNoPad(text)
    /\ Len(text) = CiphertextLen(bits)
    /\ Len(B64Bytes(text)) * 8 = bits

C13_CiphertextFormat ==
    /\ (IsEncryptCall /\ IsOk(res.out))
          => WellFormedCiphertext(res.out.val, KeyOfCall.bits)
    /\ \A i \in 1..Len(wire) :
          WellFormedCiphertext(wire[i].text, wire[i].key.bits)

\* the empty message and the longest message that a 4096-bit key takes
\* both gave a ciphertext of 683 characters
C13_Witness ==
    /\ IsEncryptCall /\ IsOk(res.out)
    /\ Len(wire) = 2
    /\ wire[1].key.bits = 4096 /\ wire[1].msg = <<>> /\ Len(wire[1].text) = 683
    /\ wire[2].key.bits = 4096 /\ wire[2].msg = Filled(446)
    /\ Len(wire[2].text) = 683
    /\ res.out.val = wire[2].text

(***************************************************************************)
(* Vocabulary of the claims about the C boundary.                          *)
(***************************************************************************)
Constructors ==
    {"e2ee_server_new", "e2ee_server_new_from_pem",
     "e2ee_client_new_from_public_pem"}

\* the creation asked for by a constructor call cannot succeed: the key
\* size is not one of the four, the prime search fails, or a PEM text is
\* not a well-formed key of its kind
CreationFails(call) ==
    CASE call.op = "e2ee_server_new" ->
           call.arg[1] \notin {as_usize(ks) : ks \in KeySize} \/ ~call.arg[2]
      [] call.op = "e2ee_server_new_from_pem" ->
           ~(WellFormedPrivate(call.arg[1]) /\ WellFormedPublic(call.arg[2]))
      [] call.op = "e2ee_client_new_from_public_pem" ->
           ~WellFormedPublic(call.arg)

HandleTag(op) ==
    IF op = "e2ee_client_new_from_public_pem" THEN "PublicE2ee" ELSE "E2ee"

\* the step added one allocation at p and left every other one as it was
Allocated(p) ==
    /\ p # NullPtr
    /\ p \notin DOMAIN heap
    /\ DOMAIN heap' = DOMAIN heap \cup {p}
    /\ \A a \in DOMAIN heap : heap'[a] = heap[a]

(***************************************************************************)
(* C14: e2ee_server_new, e2ee_server_new_from_pem and                       *)
(* e2ee_client_new_from_public_pem each return a handle or null.  They     *)
(* return null when the creation fails: on an internal failure and, for    *)
(* e2ee_server_new, on every integer key size other than 1024, 2048, 3072  *)
(* and 4096; the memory is then as it was before the call, no allocation   *)
(* is left live.  Otherwise they return a new allocation that holds the    *)
(* identity.                                                               *)
(***************************************************************************)
C14_ConstructorsReturnHandleOrNull ==
    [][res'.op \in Constructors =>
         /\ res'.out.kind = "ret"
         /\ IF CreationFails(res')
            THEN res'.out.ptr = NullPtr /\ heap' = heap
            ELSE /\ Allocated(res'.out.ptr)
                 /\ heap'[res'.out.ptr].tag = HandleTag(res'.op)]_vars

\* e2ee_server_new was called with a key size that is not one of the four
\* while a client handle was live: it returned null and the client handle
\* is the only allocation
C14_Witness ==
    /\ res.op = "e2ee_server_new"
    /\ res.arg[1] \notin {1024, 2048, 3072, 4096}
    /\ res.out = Ret(NullPtr)
    /\ Cardinality(DOMAIN heap) = 1
    /\ \A p \in DOMAIN heap : heap[p].tag = "PublicE2ee"

CipherCalls == {"e2ee_server_encrypt", "e2ee_client_encrypt", "e2ee_server_decrypt"}

\* the last call returned the string it has just allocated
NewString == res.out.ptr = brk /\ Points(Mem, res.out.ptr, "CString")

(***************************************************************************)
(* C15: for every live handle and every valid UTF-8 C string,              *)
(* e2ee_server_encrypt, e2ee_client_encrypt and e2ee_server_decrypt have   *)
(* exactly two outcomes: they return a newly allocated string, or they     *)
(* return null.  No panic or abort is reachable, in particular not when    *)
(* the decrypted plaintext contains a NUL character.                       *)
(***************************************************************************)
C15_StringOrNull ==
    res.op \in CipherCalls =>
        /\ res.out.kind = "ret"
        /\ res.out.ptr = NullPtr \/ NewString

Getters == {"e2ee_server_get_public_key_pem", "e2ee_server_get_private_key_pem"}

FreeCalls == {"e2ee_server_free", "e2ee_client_free", "e2ee_server_free_string"}

\* the allocations that are live
LiveAllocations == DOMAIN heap

(***************************************************************************)
(* C16: in every sequence of boundary calls the live allocations are       *)
(* exactly the non-null handles and strings returned so far minus those    *)
(* passed to a release function.  Only e2ee_server_free, e2ee_client_free  *)
(* and e2ee_server_free_string end the life of an allocation; encrypt,     *)
(* decrypt and the getters leave the handle they are given live and as it  *)
(* was.  Once everything returned has been released, nothing is live.      *)
(* Nothing is said of the memory after a panic or undefined behaviour.     *)
(***************************************************************************)
C16_BoundaryOwnership ==
    [][Running' =>
         /\ LiveAllocations' = given' \ freed'
         /\ LiveAllocations \ LiveAllocations' # {} => res'.op \in FreeCalls
         /\ res'.op \in CipherCalls \cup Getters =>
               /\ res'.who \in LiveAllocations'
               /\ heap'[res'.who] = heap[res'.who]
         /\ given' \subseteq freed' => LiveAllocations' = {}]_vars

\* three allocations were returned, handles and strings, and each was
\* released once, a string last: nothing is live
C16_Witness ==
    /\ Running
    /\ res.op = "e2ee_server_free_string"
    /\ Cardinality(given) = 3
    /\ freed = given
    /\ LiveAllocations = {}

(***************************************************************************)
(* C17: e2ee_server_get_public_key_pem and e2ee_server_get_private_key_pem *)
(* return null when the handle they are given is null.                     *)
(***************************************************************************)
C17_GettersNullOnNull ==
    res.op \in Getters /\ res.who = NullPtr => res.out = Ret(NullPtr)

\* the text that the C string at p holds
TextAt(p) == to_str(heap[p].val).val

\* what the identity behind the handle of the last call returns for the
\* text of the C string the call was given
EngineResult ==
    LET self == heap[res.who].val
        text == to_str(res.arg).val
    IN  IF res.op = "e2ee_server_encrypt"
        THEN E2ee_encrypt(self, text, DrawSeed(IF res.out = Ret(brk) THEN rng ELSE rng + 1)).out
        ELSE E2ee_decrypt(self, text).out

(***************************************************************************)
(* C18: the boundary adds nothing to the results of the engine.  For a     *)
(* live server handle e2ee_server_encrypt and e2ee_server_decrypt return a *)
(* non-null string exactly when encrypt and decrypt of the identity return *)
(* Ok, and null otherwise; the string holds the text the identity          *)
(* returned; e2ee_server_decrypt of what e2ee_server_encrypt returned for  *)
(* the message m returns m.                                                *)
(***************************************************************************)
C18_BoundaryAddsNothing ==
    res.op \in {"e2ee_server_encrypt", "e2ee_server_decrypt"} =>
        /\ IF IsOk(EngineResult)
           THEN /\ res.out.kind = "ret"
                /\ res.out.ptr # NullPtr
                /\ NewString
                /\ TextAt(res.out.ptr) = EngineResult.val
           ELSE res.out = Ret(NullPtr)
        /\ \A i \in 1..Len(wire) :
              /\ res.op = "e2ee_server_decrypt"
              /\ wire[i].by = res.who
              /\ wire[i].text = res.arg
              => /\ res.out.kind = "ret"
                 /\ res.out.ptr # NullPtr
                 /\ heap[res.out.ptr].val = wire[i].msg

\* the key that a well-formed PEM text encodes
KeyOf(text) == text[2].der.key

\* a well-formed private PEM and a well-formed public PEM of another pair
MismatchedPems(private_key_pem, public_key_pem) ==
    /\ WellFormedPrivate(private_key_pem)
    /\ WellFormedPublic(public_key_pem)
    /\ PublicFrom(KeyOf(private_key_pem)) # KeyOf(public_key_pem)

\* h was built by new_from_pem from such texts
Mismatched(h) ==
    /\ born[h] # Null
    /\ born[h].op = "new_from_pem"
    /\ MismatchedPems(born[h].arg[1], born[h].arg[2])

(***************************************************************************)
(* C19: new_from_pem does not check that the two keys are a pair.  Given a *)
(* well-formed private PEM and a well-formed public PEM of a different key *)
(* pair it returns an identity; that identity encrypts every message       *)
(* within the limit of its public key, and its decrypt of a ciphertext     *)
(* that it returned itself fails with an error.                            *)
(***************************************************************************)
C19_MismatchedPair ==
    /\ (res.op = "new_from_pem" /\ MismatchedPems(res.arg[1], res.arg[2]))
          => /\ IsOk(res.out)
             /\ res.out.val.private_key = KeyOf(res.arg[1])
             /\ res.out.val.public_key = KeyOf(res.arg[2])
    /\ \A h \in Servers :
          Mismatched(h) /\ res.who = h =>
             /\ (res.op = "encrypt"
                   /\ Len(as_bytes(res.arg)) <= OaepLimit(srv[h].public_key))
                  => IsOk(res.out)
             /\ res.op = "decrypt" =>
                  \A i \in 1..Len(wire) :
                     wire[i].by = h /\ wire[i].text = res.arg
                        => IsErr(res.out) /\ CryptoError(res.out.err)

\* b holds the private key of the generated identity and the public key of
\* the fixture; it encrypted "Hi mom!" and its decrypt of that ciphertext
\* returned an error
C19_Witness ==
    /\ Mismatched("b")
    /\ born["a"] # Null
    /\ born["b"].arg[1] = born["a"].val.private_key_pem
    /\ born["b"].arg[2] = FixturePublicPem
    /\ res.op = "decrypt" /\ res.who = "b"
    /\ \E i \in 1..Len(wire) :
          wire[i].by = "b" /\ wire[i].msg = HiMom /\ wire[i].text = res.arg
    /\ IsErr(res.out)

\* the step is a call of save_keys_to_files for two different files of
\* which the second did not exist, and the step named by fault failed
SaveFailedAt(fault) ==
    /\ res'.op = "save_keys_to_files"
    /\ res'.arg[1] # res'.arg[2]
    /\ res'.arg[3] = fault
    /\ ~fs[res'.arg[2]].exists

\* data is the beginning of text and not the whole of it
Incomplete(data, text) ==
    /\ Len(data) < Len(text)
    /\ data = SubSeq(text, 1, Len(data))

(***************************************************************************)
(* C20, as stated: partial write of save_keys_to_files.  A failure after   *)
(* the first file's step has succeeded, that is at the creation or at the  *)
(* write of the public key file, leaves exactly one file written, the      *)
(* private key file holding its complete PEM text, and the other missing.  *)
(***************************************************************************)
C20_OneWrittenOneMissing ==
    [][SaveFailedAt("create_public") \/ SaveFailedAt("write_public") =>
         /\ fs'[res'.arg[1]] = FileOf(srv[res'.who].private_key_pem)
         /\ ~fs'[res'.arg[2]].exists]_vars

(***************************************************************************)
(* C20, amended: both files are created before either is written.  A       *)
(* failure at the write of the public key file leaves the private key file *)
(* holding its complete PEM text and the public key file created but       *)
(* incomplete, empty or cut short; a failure at the creation of the public *)
(* key file leaves the private key file created and empty and the public   *)
(* key file missing.                                                       *)
(***************************************************************************)
C20_PartialWrite ==
    [][/\ SaveFailedAt("write_public") =>
            /\ IsErr(res'.out)
            /\ fs'[res'.arg[1]] = FileOf(srv[res'.who].private_key_pem)
            /\ fs'[res'.arg[2]].exists
            /\ Incomplete(fs'[res'.arg[2]].data, srv[res'.who].public_key_pem)
       /\ SaveFailedAt("create_public") =>
            /\ IsErr(res'.out)
            /\ fs'[res'.arg[1]] = FileOf(<<>>)
            /\ ~fs'[res'.arg[2]].exists]_vars

\* the write of the public key failed after one line: private.pem holds
\* the whole private PEM, public.pem exists and holds that one line
C20_Witness ==
    /\ IsSaveCall /\ TwoFiles /\ IsErr(res.out)
    /\ res.arg[3] = "write_public"
    /\ fs[res.arg[1]] = FileOf(srv[res.who].private_key_pem)
    /\ fs[res.arg[2]].exists
    /\ Len(fs[res.arg[2]].data) = 1
    /\ fs[res.arg[2]].data[1] = srv[res.who].public_key_pem[1]

\* the limit in bytes for a key of the given size in bits
ByteLimit(bits) ==
    CASE bits = 1024 -> 62
      [] bits = 2048 -> 190
      [] bits = 3072 -> 318
      [] bits = 4096 -> 446

(***************************************************************************)
(* C21: the plaintext limit is counted in bytes after UTF-8 encoding and   *)
(* is modulus_bytes - 2 * 32 - 2: 62, 190, 318 and 446 bytes for keys of   *)
(* 1024, 2048, 3072 and 4096 bits.  encrypt returns Ok for every message   *)
(* of at most that many bytes, the limit included, and an error for every  *)
(* message of more bytes, also when it has fewer characters than the       *)
(* limit.                                                                  *)
(***************************************************************************)
C21_ByteLimit ==
    IsEncryptCall =>
       LET bits == KeyOfCall.bits
       IN  /\ ByteLimit(bits) = bits \div 8 - 2 * 32 - 2
           /\ IsOk(res.out) <=> Len(as_bytes(res.arg)) <= ByteLimit(bits)

\* with a 2048-bit key a message of exactly 190 bytes was encrypted and
\* then a message of 191 bytes in 64 characters was refused
C21_Witness ==
    /\ res.op = "encrypt"
    /\ srv[res.who].public_key.bits = 2048
    /\ Len(as_bytes(res.arg)) = 191 /\ Len(res.arg) = 64
    /\ IsErr(res.out)
    /\ Len(wire) > 0
    /\ Len(as_bytes(wire[Len(wire)].msg)) = 190
    /\ wire[Len(wire)].key.bits = 2048

\* the last call is a key generation whose prime search failed
GenerationFailed == res.op = "new" /\ IsErr(res.out)

EngineOps == {"new", "new_from_pem", "encrypt", "decrypt", "save_keys_to_files"}

\* the internal steps of an operation, in the order in which it runs them
StepsOf(op) ==
    CASE op = "new" -> <<"generate_rsa_keypair">>
      [] op = "new_from_pem" -> <<"from_public_key_pem", "from_pkcs8_pem">>
      [] op = "encrypt" -> <<"rsa_encrypt", "base64_encode">>
      [] op = "decrypt" -> <<"base64_decode", "rsa_decrypt", "from_utf8">>
      [] op = "save_keys_to_files" -> AllSaveSteps

\* the errors with which a step fails
ErrorsOf(step) ==
    CASE step \in {"generate_rsa_keypair", "rsa_encrypt", "rsa_decrypt"} ->
           {"rsa::errors::Error"}
      [] step = "from_public_key_pem" -> {"spki::Error"}
      [] step = "from_pkcs8_pem" -> {"pkcs8::Error"}
      [] step = "base64_decode" -> {"base64::DecodeError"}
      [] step = "from_utf8" -> {"FromUtf8Error"}
      [] step = "create_private" ->
           {"FileWriteError: Failed to create private key file"}
      [] step = "create_public" ->
           {"FileWriteError: Failed to create public key file"}
      [] step = "write_private" ->
           {"FileWriteError: Failed to write private key to file"}
      [] step = "write_public" ->
           {"FileWriteError: Failed to write public key to file"}
      [] OTHER -> {}

\* the first step of the last call that fails for its arguments and for
\* the faults of its environment, "none" when no step fails
FirstFailure ==
    CASE res.op = "new" ->
           IF res.arg[2] THEN "none" ELSE "generate_rsa_keypair"
      [] res.op = "new_from_pem" ->
           IF ~WellFormedPublic(res.arg[2]) THEN "from_public_key_pem"
           ELSE IF ~WellFormedPrivate(res.arg[1]) THEN "from_pkcs8_pem"
           ELSE "none"
      [] res.op = "encrypt" ->
           IF Len(as_bytes(res.arg)) > OaepLimit(srv[res.who].public_key)
           THEN "rsa_encrypt" ELSE "none"
      [] res.op = "decrypt" ->
           IF ~ValidNoPad(res.arg) THEN "base64_decode"
           ELSE IF ~CiphertextFor(srv[res.who], res.arg) THEN "rsa_decrypt"
           ELSE IF res.arg = NotUtf8(srv[res.who]) THEN "from_utf8"
           ELSE "none"
      [] res.op = "save_keys_to_files" -> res.arg[3]

\* the steps of an operation up to and including the given one
UpTo(op, step) ==
    LET all == StepsOf(op)
        at == CHOOSE i \in 1..Len(all) : all[i] = step
    IN  SubSeq(all, 1, at)

(***************************************************************************)
(* C23: no engine operation swallows a failure or retries.  In new,        *)
(* new_from_pem, encrypt, decrypt and save_keys_to_files the first step    *)
(* that fails ends the operation with the error of that step returned to   *)
(* the caller: the steps that ran are the steps up to the failing one,     *)
(* each once and in order, none after it; Ok is returned only when no step *)
(* failed, after all steps ran.                                            *)
(***************************************************************************)
C23_NoSwallowNoRetry ==
    res.op \in EngineOps =>
       IF FirstFailure = "none"
       THEN IsOk(res.out) /\ res.steps = StepsOf(res.op)
       ELSE /\ IsErr(res.out)
            /\ res.steps = UpTo(res.op, FirstFailure)
            /\ res.out.err \in ErrorsOf(FirstFailure)

\* the creation of the public key file failed: save_keys_to_files returned
\* its error after two steps, nothing was written
C23_Witness ==
    /\ IsSaveCall
    /\ res.arg[3] = "create_public"
    /\ res.steps = <<"create_private", "create_public">>
    /\ res.out = Err("FileWriteError: Failed to create public key file")
    /\ fs["private.pem"].data = <<>>
    /\ ~fs["public.pem"].exists

(***************************************************************************)
(* C24: a run of the command-line program in which a step returns an error *)
(* (reading a key file, constructing the identity, encrypt, decrypt, save) *)
(* ends with a message on standard error and a non-zero exit code, so exit *)
(* code zero means every step succeeded; and the "saved to" lines are on   *)
(* standard output only when save_keys_to_files succeeded, the two files   *)
(* then holding the PEM texts.  Which step fails is read from the command, *)
(* the environment and the key files, not from the run.                    *)
(***************************************************************************)
IsRun == res.op = "main"

RunCmd == res.arg[1]

RunEnv == res.arg[2]

Unreadable(path) == ~fs[path].exists

StepFails ==
    CASE res.who = "generate-keys" -> ~RunEnv.genOk \/ RunEnv.fault # "none"
      [] res.who = "encrypt" ->
           LET file == fs[RunCmd.public_key_file_path]
           IN  \/ Unreadable(RunCmd.public_key_file_path)
               \/ ~WellFormedPublic(file.data)
               \/ Len(as_bytes(RunCmd.message)) > OaepLimit(file.data[2].der.key)
      [] res.who = "decrypt" ->
           LET private == fs[RunCmd.private_key_file_path]
               public == fs[RunCmd.public_key_file_path]
           IN  \/ Unreadable(RunCmd.private_key_file_path)
               \/ Unreadable(RunCmd.public_key_file_path)
               \/ ~WellFormedPublic(public.data)
               \/ ~WellFormedPrivate(private.data)
               \/ ~ValidNoPad(RunCmd.ciphertext)
               \/ ~\E i \in 1..Len(wire) :
                      /\ wire[i].text = RunCmd.ciphertext
                      /\ wire[i].key = PublicFrom(private.data[2].der.key)

SavedToLines ==
    {i \in 1..Len(res.out.stdout) :
        res.out.stdout[i].label \in {"Public Key Pem is saved to:",
                                     "Private Key Pem is saved to:"}}

C24_ExitCode ==
    IsRun =>
       /\ StepFails => res.out.code # 0 /\ res.out.stderr # <<>>
       /\ res.out.code = 0 => ~StepFails
       /\ SavedToLines # {} =>
             /\ res.who = "generate-keys"
             /\ RunEnv.genOk /\ RunEnv.fault = "none"
             /\ fs[RunCmd.public_key_file_path] = FileOf(res.out.stdout[1].text)
             /\ fs[RunCmd.private_key_file_path] = FileOf(res.out.stdout[2].text)

\* generate-keys whose last write fails: the two PEM texts were printed, the
\* "saved to" lines were not, and the run ends with the error and code 1
C24_Witness ==
    /\ IsRun
    /\ res.who = "generate-keys"
    /\ RunEnv.fault = "write_public"
    /\ res.out.code = 1
    /\ res.out.stderr = <<"Failed to save keys to files",
                          "FileWriteError: Failed to write public key to file">>
    /\ Len(res.out.stdout) = 2
    /\ SavedToLines = {}

(***************************************************************************)
(* C25: the order of the steps of save_keys_to_files.  The steps of a call *)
(* are the beginning of the list create(private file), create(public       *)
(* file), write(private PEM), write(public PEM), and each create empties   *)
(* the file it names: when a write was attempted both files exist, when    *)
(* the first write fails at once the public file is empty whatever it held *)
(* before, and when the creation of the public file fails the private file *)
(* exists and is empty, whatever it held before the call.                  *)
(***************************************************************************)
IsPrefix(s, t) == Len(s) <= Len(t) /\ s = SubSeq(t, 1, Len(s))

Attempted(step) == \E i \in 1..Len(res'.steps) : res'.steps[i] = step

C25_CreateBeforeWrite ==
    [][res'.op = "save_keys_to_files" =>
         LET private_path == res'.arg[1]
             public_path == res'.arg[2]
             fault == res'.arg[3]
         IN  /\ IsPrefix(res'.steps, AllSaveSteps)
             /\ Attempted("write_private") =>
                   fs'[private_path].exists /\ fs'[public_path].exists
             /\ (fault = "write_private" /\ private_path # public_path) =>
                   fs'[public_path] = FileOf(<<>>)
             /\ fault = "create_public" =>
                   /\ res'.steps = <<"create_private", "create_public">>
                   /\ fs'[private_path] = FileOf(<<>>)
                   /\ private_path # public_path =>
                         fs'[public_path] = fs[public_path]]_vars

\* b was loaded from the private key file as it was at the start; a call
\* that failed to create the public key file has left that file empty
C25_Witness ==
    /\ IsSaveCall /\ TwoFiles /\ IsErr(res.out)
    /\ res.arg[3] = "create_public"
    /\ born["b"] # Null /\ born["b"].op = "new_from_pem"
    /\ born["b"].arg[1] = FixturePrivatePem
    /\ fs[res.arg[1]] = FileOf(<<>>)

(***************************************************************************)
(* C26: what the files hold after save_keys_to_files returned Ok.  For     *)
(* every pair of paths, two paths that name one file included, the file at *)
(* the private key path holds exactly the cached private PEM and the file  *)
(* at the public key path holds exactly the cached public PEM.             *)
(***************************************************************************)
C26_SavedFilesHoldPems ==
    (IsSaveCall /\ IsOk(res.out)) =>
       /\ fs[res.arg[1]] = FileOf(srv[res.who].private_key_pem)
       /\ fs[res.arg[2]] = FileOf(srv[res.who].public_key_pem)

(***************************************************************************)
(* C27: new_from_pem parses the public key first and stops at the first    *)
(* failure.  When both PEM texts are malformed the private key is not      *)
(* parsed and the error is that of the public key, spki::Error; the error  *)
(* of the private key, pkcs8::Error, is returned only for a well-formed    *)
(* public PEM with a malformed private PEM, after both were parsed.        *)
(***************************************************************************)
C27_PublicKeyParsedFirst ==
    res.op = "new_from_pem" =>
       LET private_bad == ~WellFormedPrivate(res.arg[1])
           public_bad == ~WellFormedPublic(res.arg[2])
       IN  /\ (private_bad /\ public_bad) =>
                 /\ res.out = Err("spki::Error")
                 /\ res.steps = <<"from_public_key_pem">>
           /\ (IsErr(res.out) /\ res.out.err = "pkcs8::Error") =>
                 /\ ~public_bad /\ private_bad
                 /\ res.steps = <<"from_public_key_pem", "from_pkcs8_pem">>

\* both texts are the junk text: the error is the public key's
C27_Witness ==
    /\ res.op = "new_from_pem"
    /\ res.arg = <<JunkPem, JunkPem>>
    /\ res.out = Err("spki::Error")
    /\ res.steps = <<"from_public_key_pem">>
    /\ srv[res.who] = Null

(***************************************************************************)
(* C28: releasing the null sentinel.  e2ee_server_free and                 *)
(* e2ee_client_free called with null return and leave every live           *)
(* allocation as it was; e2ee_server_free_string has no null check, and a  *)
(* call with null, such as the null of a failed encrypt or decrypt, hands  *)
(* the null pointer to the deallocation of a CString: it does not return   *)
(* as a call that did nothing.                                             *)
(***************************************************************************)
FreeOfNull(op) == res'.op = op /\ res'.who = NullPtr

C28_NullRelease ==
    [][/\ (FreeOfNull("e2ee_server_free") \/ FreeOfNull("e2ee_client_free")) =>
            /\ res'.out = Returned
            /\ heap' = heap
            /\ freed' = freed
       /\ FreeOfNull("e2ee_server_free_string") =>
            /\ res'.out # Returned
            /\ res'.out.kind \in Undefined]_vars

\* a failed encrypt returned null, and the null was then passed to
\* e2ee_server_free_string while the handle was live
C28_Witness ==
    /\ res.op = "e2ee_server_free_string"
    /\ res.who = NullPtr
    /\ res.out.kind = "crash"
    /\ Handles("E2ee") # {}
    /\ freed = {}

(***************************************************************************)
(* C29: every string returned across the boundary is a copy of its own.    *)
(* A call of e2ee_server_get_public_key_pem or                             *)
(* e2ee_server_get_private_key_pem on a live handle returns a pointer to a *)
(* new allocation, never handed out before, whose text is the cached PEM   *)
(* of the identity, and changes no other allocation; releasing the handle  *)
(* leaves every string allocated and unaltered, and releasing a string     *)
(* removes that string alone, the handle and the other strings staying as  *)
(* they were.                                                              *)
(***************************************************************************)
CachedPem(op, x) ==
    IF op = "e2ee_server_get_public_key_pem"
    THEN x.public_key_pem ELSE x.private_key_pem

Untouched(ps) == \A q \in ps : q \in DOMAIN heap' /\ heap'[q] = heap[q]

C29_IndependentCopies ==
    [][/\ (res'.op \in Getters /\ res'.who \in Handles("E2ee")) =>
            /\ res'.out.kind = "ret"
            /\ res'.out.ptr \notin DOMAIN heap \cup given \cup {NullPtr}
            /\ DOMAIN heap' = DOMAIN heap \cup {res'.out.ptr}
            /\ heap'[res'.out.ptr] =
                  Boxed("CString", CachedPem(res'.op, heap[res'.who].val))
            /\ Untouched(DOMAIN heap)
       /\ (res'.op = "e2ee_server_free" /\ res'.who \in Handles("E2ee")) =>
            /\ Untouched(Handles("CString"))
            /\ res'.who \notin DOMAIN heap'
       /\ (res'.op = "e2ee_server_free_string"
             /\ res'.who \in Handles("CString")) =>
            /\ Untouched(DOMAIN heap \ {res'.who})
            /\ res'.who \notin DOMAIN heap']_vars

\* the public PEM was asked for twice and the handle then released: two
\* strings with the same text are allocated, neither released
C29_Witness ==
    /\ res.op = "e2ee_server_free"
    /\ res.who # NullPtr
    /\ Handles("E2ee") = {}
    /\ \E p, q \in Handles("CString") :
          /\ p # q
          /\ heap[p].val = FixturePublicPem
          /\ heap[q].val = FixturePublicPem
          /\ {p, q} \cap freed = {}

(***************************************************************************)
(* C30: the boundary functions only borrow their text inputs.  After a     *)
(* call of one of the five functions that take a message, a ciphertext or  *)
(* a PEM text, every buffer passed in is still allocated and holds the     *)
(* text it held, and what the function returns is a new allocation, none   *)
(* of those of before the call; the handle holds its texts by value, so    *)
(* that when the caller frees a buffer every handle stays as it was and a  *)
(* later call on the handle, with the PEM buffers gone, still returns.     *)
(***************************************************************************)
TextCalls ==
    {"e2ee_server_new_from_pem", "e2ee_client_new_from_public_pem",
     "e2ee_server_encrypt", "e2ee_client_encrypt", "e2ee_server_decrypt"}

AllHandles == Handles("E2ee") \cup Handles("PublicE2ee")

C30_InputsBorrowed ==
    [][/\ res'.op \in TextCalls =>
            /\ \A i \in 1..Len(res'.arg) :
                  /\ res'.arg[i] \in DOMAIN heap'
                  /\ heap'[res'.arg[i]] = heap[res'.arg[i]]
            /\ res'.out.kind = "ret" => res'.out.ptr \notin DOMAIN heap
            /\ freed' = freed
       /\ res'.op = "caller_free" =>
            \A h \in AllHandles : h \in DOMAIN heap' /\ heap'[h] = heap[h]
       /\ (/\ res'.op \in Getters \cup {"e2ee_server_encrypt"}
           /\ res'.who \in Handles("E2ee")
           /\ {PrivatePemBuf, PublicPemBuf} \cap DOMAIN heap = {}) =>
            /\ res'.out.kind = "ret"
            /\ res'.op \in Getters =>
                  heap'[res'.out.ptr].val = heap[res'.who].val.public_key_pem]_vars

\* the two PEM buffers were freed after the handle was built from them, and
\* the handle then returned the public PEM
C30_Witness ==
    /\ res.op = "e2ee_server_get_public_key_pem"
    /\ res.who \in Handles("E2ee")
    /\ {PrivatePemBuf, PublicPemBuf} \cap DOMAIN heap = {}
    /\ res.out.kind = "ret"
    /\ res.out.ptr \in Handles("CString")
    /\ heap[res.out.ptr].val = FixturePublicPem

====
